---- MODULE Spec2Model ----
(***************************************************************************)
(* A model of the `water` WebAssembly reader and validator:                *)
(*   - the byte cursor (readers/binary.rs),                                *)
(*   - the preamble reader (readers/preamble.rs),                          *)
(*   - the streaming parser (parser.rs) and the driver loop (main.rs),     *)
(*   - the preamble validator (validators/preamble.rs),                    *)
(*   - the function-body type checker (validators/code.rs).                *)
(*                                                                         *)
(* Four specifications share the module's variables:                      *)
(*   Spec          a client calling Parser::parse with arbitrary buffers   *)
(*   SpecDriver    main's loop: parse, validate, drain, repeat             *)
(*   SpecValidate  Validator::validate on preamble chunks                  *)
(*   SpecCode      CodeValidatorState::validate_instruction over a body    *)
(***************************************************************************)
EXTENDS Integers, Sequences, FiniteSets, TLC

VARIABLES
    location,       \* Parser.location
    buffer,         \* the byte buffer handed to parse (main's `v` in SpecDriver)
    result,         \* what the last parse call returned
    prevLocation,   \* Parser.location when the last parse call was made
    emitted,        \* the chunk kinds returned by the successful parse calls so far
    pc,             \* position of the caller: the driver loop of main, or a client
    chunk,          \* the chunk handed to Validator::validate
    vresult,        \* what Validator::validate returned
    context,        \* Validator.context, built from the sections validated so far
    prevContext,    \* Validator.context when the last validate call was made
    imported,       \* the type indices of the functions imported by the accepted sections
    func_type_index,\* the TypeIndex of the function whose body is checked
    body,           \* the instructions validated so far, in order
    operand_stack,  \* CodeValidatorState.operand_stack
    control_stack,  \* CodeValidatorState.control_stack
    status,         \* result of the validation so far: "Ok" or the error
    prev,           \* operand_stack, control_stack and status before the last instruction
    binary_reader,  \* a BinaryReader: its buffer and its position
    num,            \* the number whose encoding is the reader's buffer, if any
    read,           \* the last read operation on the reader and what it returned
    iterator,       \* an iterator over a sub-reader: its reader, error flag, remaining count
    yielded         \* what the calls of the iterator's next() returned, in order

parserVars == <<location, buffer, result, prevLocation, emitted, pc>>
validateVars == <<chunk, vresult, context, prevContext, imported>>
codeVars == <<func_type_index, body, operand_stack, control_stack, status, prev>>
iterVars == <<iterator, yielded>>
readerVars == <<binary_reader, num, read, iterVars>>
vars == <<parserVars, validateVars, codeVars, readerVars>>

(***************************************************************************)
(* Bounds of the model.                                                    *)
(***************************************************************************)
MaxSectionLen == 4      \* longest section byte string handed to parse
MaxCalls == 3           \* successful parse calls followed in one behaviour
MaxBody == 3            \* instructions of a function body
MaxContext == 2         \* entries the validator's context grows to
MaxBuffer == 3          \* longest buffer a BinaryReader is made over

(***************************************************************************)
(* Values.  A u32 is kept as its top 4 bits and its low 28 bits, so that   *)
(* every u32 is represented exactly.                                       *)
(***************************************************************************)
U32(hi, lo) == [hi |-> hi, lo |-> lo]
U32Of(n) == U32(0, n)
\* `x as usize` on a 64-bit target
AsUsize(u) == u.hi * 268435456 + u.lo

RECURSIVE SeqsUpTo(_, _)
SeqsUpTo(S, n) ==
    IF n = 0 THEN {<<>>}
    ELSE LET shorter == SeqsUpTo(S, n - 1)
         IN shorter \cup {Append(s, x) : s \in {t \in shorter : Len(t) = n - 1}, x \in S}

Prefixes(s) == {SubSeq(s, 1, n) : n \in 0..Len(s)}

ROk(val, pos) == [ok |-> TRUE, val |-> val, pos |-> pos, err |-> "None"]
RErr(err, pos) == [ok |-> FALSE, val |-> 0, pos |-> pos, err |-> err]

(***************************************************************************)
(* BinaryReader: a buffer and a position (readers/binary.rs).              *)
(***************************************************************************)
ensure_has_bytes(buf, position, n) == position + n <= Len(buf)

read_bytes(buf, position, n) ==
    IF ensure_has_bytes(buf, position, n)
    THEN ROk(SubSeq(buf, position + 1, position + n), position + n)
    ELSE RErr("UnexpectedEof", position)

read_double_word(buf, position) ==
    IF ensure_has_bytes(buf, position, 4)
    THEN LET b0 == buf[position + 1]
             b1 == buf[position + 2]
             b2 == buf[position + 3]
             b3 == buf[position + 4]
         IN ROk(U32(b3 \div 16, b0 + b1 * 256 + b2 * 65536 + (b3 % 16) * 16777216),
                position + 4)
    ELSE RErr("UnexpectedEof", position)

read_byte(buf, position) ==
    LET bytes == read_bytes(buf, position, 1)
    IN IF bytes.ok THEN ROk(bytes.val[1], bytes.pos) ELSE bytes

\* a faulty variant: the fifth byte is taken as it is
RECURSIVE leb128_u32_loop_unchecked(_, _, _, _)
leb128_u32_loop_unchecked(buf, position, acc, shift) ==
    LET b == read_byte(buf, position)
    IN IF ~b.ok THEN b
       ELSE LET acc2 == IF shift < 28
                        THEN [acc EXCEPT !.lo = @ + (b.val % 128) * (2 ^ shift)]
                        ELSE [acc EXCEPT !.hi = b.val % 16]
            IN IF b.val \div 128 = 0 \/ shift = 28 THEN ROk(acc2, b.pos)
               ELSE leb128_u32_loop_unchecked(buf, b.pos, acc2, shift + 7)

RECURSIVE leb128_u32_loop(_, _, _, _)
leb128_u32_loop(buf, position, acc, shift) ==
    LET b == read_byte(buf, position)
    IN IF ~b.ok THEN b
       ELSE LET byte == b.val
                \* result |= ((byte & 0x7f) as u32) << shift, in 32 bits
                acc2 == IF shift < 28
                        THEN [acc EXCEPT !.lo = @ + (byte % 128) * (2 ^ shift)]
                        ELSE [acc EXCEPT !.hi = byte % 16]
            IN IF shift = 28 /\ (byte \div 16) # 0 THEN RErr("InvalidU32", b.pos)
               ELSE IF byte \div 128 = 0 THEN ROk(acc2, b.pos)
               ELSE leb128_u32_loop(buf, b.pos, acc2, shift + 7)

read_leb128_u32(buf, position) == leb128_u32_loop(buf, position, U32(0, 0), 0)

(***************************************************************************)
(* The signed readers. A signed integer of a width is the sequence of its  *)
(* bits in two's complement, the least significant first.                  *)
(***************************************************************************)
Zero(width) == [i \in 1..width |-> 0]

\* result |= (value as iN) << shift, for a value of seven bits
or_shifted(bits, value, shift) ==
    [i \in DOMAIN bits |->
        IF i > shift /\ i <= shift + 7 /\ (value \div 2 ^ (i - shift - 1)) % 2 = 1
        THEN 1 ELSE bits[i]]

\* (result << unused_bits) >> unused_bits on a signed integer of a width
sign_extend(bits, width, unused_bits) ==
    [i \in 1..width |->
        IF i <= width - unused_bits THEN bits[i] ELSE bits[width - unused_bits]]

\* (byte << 1) as i8 >> n
sign_and_unused_bits(byte, n) ==
    LET shifted == (byte * 2) % 256
    IN IF shifted >= 128 THEN (shifted \div 2 ^ n) - 2 ^ (8 - n) ELSE shifted \div 2 ^ n

\* what the three signed readers differ in: the width of `result`, the shift
\* of the last permissible byte, the shift in sign_and_unused_bits, the
\* unused bits extended over after the last permissible byte, and the error
S32 == [width |-> 32, last_shift |-> 28, n |-> 4, unused_bits |-> 0, err |-> "InvalidS32"]
S33 == [width |-> 64, last_shift |-> 28, n |-> 5, unused_bits |-> 31, err |-> "InvalidS33"]
S64 == [width |-> 64, last_shift |-> 63, n |-> 1, unused_bits |-> 0, err |-> "InvalidS64"]

\* a faulty variant: the last permissible byte is taken as it is
RECURSIVE leb128_signed_loop_unchecked(_, _, _, _, _)
leb128_signed_loop_unchecked(buf, position, acc, shift, p) ==
    LET b == read_byte(buf, position)
    IN IF ~b.ok THEN b
       ELSE IF shift = p.last_shift
       THEN ROk(sign_extend(or_shifted(acc, b.val % 128, shift), p.width, p.unused_bits), b.pos)
       ELSE IF b.val \div 128 = 0
       THEN ROk(sign_extend(or_shifted(acc, b.val % 128, shift), p.width, p.width - (shift + 7)), b.pos)
       ELSE leb128_signed_loop_unchecked(buf, b.pos, or_shifted(acc, b.val % 128, shift),
                                         shift + 7, p)

\* the loop of read_leb128_s32, read_leb128_s33 and read_leb128_s64
RECURSIVE leb128_signed_loop(_, _, _, _, _)
leb128_signed_loop(buf, position, acc, shift, p) ==
    LET b == read_byte(buf, position)
    IN IF ~b.ok THEN b
       ELSE IF shift = p.last_shift
       THEN IF b.val \div 128 # 0 \/ sign_and_unused_bits(b.val, p.n) \notin {0, -1}
            THEN RErr(p.err, b.pos)
            ELSE ROk(sign_extend(or_shifted(acc, b.val % 128, shift), p.width, p.unused_bits), b.pos)
       ELSE IF b.val \div 128 = 0
       THEN ROk(sign_extend(or_shifted(acc, b.val % 128, shift), p.width, p.width - (shift + 7)), b.pos)
       ELSE leb128_signed_loop(buf, b.pos, or_shifted(acc, b.val % 128, shift), shift + 7, p)

read_leb128_s33(buf, position) == leb128_signed_loop(buf, position, Zero(S33.width), 0, S33)
read_leb128_s32(buf, position) == leb128_signed_loop(buf, position, Zero(S32.width), 0, S32)
read_leb128_s64(buf, position) == leb128_signed_loop(buf, position, Zero(S64.width), 0, S64)

(***************************************************************************)
(* The encoders of the tests of readers/binary.rs.                         *)
(***************************************************************************)
RECURSIVE encode_u32(_)
encode_u32(n) ==
    LET byte == n.lo % 128
        \* num >>= 7
        shifted == U32(0, n.lo \div 128 + n.hi * 2097152)
    IN IF shifted # U32(0, 0)
       THEN <<byte + 128>> \o encode_u32(shifted)
       ELSE <<byte>>

\* num as u8 & 0b0111_1111
low_seven_bits(bits) ==
    bits[1] + 2 * bits[2] + 4 * bits[3] + 8 * bits[4] + 16 * bits[5] + 32 * bits[6]
        + 64 * bits[7]

\* num >>= 7 on a signed integer of a width
shift_right_seven(bits, width) ==
    [i \in 1..width |-> IF i + 7 <= width THEN bits[i + 7] ELSE bits[width]]

\* the loop of encode_s32 and encode_s33, on a signed integer of a width:
\* after the shift the number is 0 or -1 when its bits from the eighth on
\* are all 0 or all 1
RECURSIVE encode_signed(_, _)
encode_signed(bits, width) ==
    IF \/ (\A i \in 8..width : bits[i] = 0) /\ bits[7] = 0
       \/ (\A i \in 8..width : bits[i] = 1) /\ bits[7] = 1
    THEN <<low_seven_bits(bits)>>
    ELSE <<low_seven_bits(bits) + 128>> \o encode_signed(shift_right_seven(bits, width), width)

encode_s32(bits) == encode_signed(bits, 32)
encode_s33(bits) == encode_signed(bits, 64)
encode_s64(bits) == encode_s33(bits)

create_buffer_slice(buf, start, end) ==
    IF end > Len(buf) THEN RErr("UnexpectedEof", end)
    ELSE ROk(SubSeq(buf, start + 1, end), end)

\* a faulty variant: the cursor is not moved past the bytes
read_bytes_vec_stays(buf, position) ==
    LET len == read_leb128_u32(buf, position)
    IN IF ~len.ok THEN len
       ELSE LET start == len.pos
                end == start + AsUsize(len.val)
                slice == create_buffer_slice(buf, start, end)
            IN [slice EXCEPT !.pos = start]

read_bytes_vec(buf, position) ==
    LET len == read_leb128_u32(buf, position)
    IN IF ~len.ok THEN len
       ELSE LET start == len.pos
                end == start + AsUsize(len.val)
            IN create_buffer_slice(buf, start, end)

\* str::from_utf8: the well-formed byte sequences of UTF-8
RECURSIVE from_utf8(_)
from_utf8(bytes) ==
    LET n == Len(bytes)
        cont(i, lo, hi) == i <= n /\ bytes[i] >= lo /\ bytes[i] <= hi
        b == bytes[1]
        rest(k) == from_utf8(SubSeq(bytes, k + 1, n))
    IN IF n = 0 THEN TRUE
       ELSE IF b <= 127 THEN rest(1)
       ELSE IF b >= 194 /\ b <= 223 THEN cont(2, 128, 191) /\ rest(2)
       ELSE IF b = 224 THEN cont(2, 160, 191) /\ cont(3, 128, 191) /\ rest(3)
       ELSE IF b = 237 THEN cont(2, 128, 159) /\ cont(3, 128, 191) /\ rest(3)
       ELSE IF b >= 225 /\ b <= 239 THEN cont(2, 128, 191) /\ cont(3, 128, 191) /\ rest(3)
       ELSE IF b = 240
            THEN cont(2, 144, 191) /\ cont(3, 128, 191) /\ cont(4, 128, 191) /\ rest(4)
       ELSE IF b >= 241 /\ b <= 243
            THEN cont(2, 128, 191) /\ cont(3, 128, 191) /\ cont(4, 128, 191) /\ rest(4)
       ELSE IF b = 244
            THEN cont(2, 128, 143) /\ cont(3, 128, 191) /\ cont(4, 128, 191) /\ rest(4)
       ELSE FALSE

read_string(buf, position) ==
    LET len == read_leb128_u32(buf, position)
    IN IF ~len.ok THEN len
       ELSE LET bytes == IF len.val.hi = 0
                         THEN read_bytes(buf, len.pos, len.val.lo)
                         ELSE RErr("UnexpectedEof", len.pos)
            IN IF ~bytes.ok THEN bytes
               ELSE IF from_utf8(bytes.val) THEN bytes
               ELSE RErr("InvalidUtf8", bytes.pos)

(***************************************************************************)
(* PreambleReader::read_preamble (readers/preamble.rs).  The parser takes  *)
(* (consumed, magic_number, version) from it: magic_number is the four     *)
(* bytes read.                                                             *)
(***************************************************************************)
WASM_MAGIC_NUMBER == <<0, 97, 115, 109>>
WASM_SUPPORTED_VERSION == 1

PreambleOk(consumed, magic_number, version) ==
    [ok |-> TRUE, consumed |-> consumed, magic_number |-> magic_number,
     version |-> version, err |-> <<>>]
PreambleErr(err) ==
    [ok |-> FALSE, consumed |-> 0, magic_number |-> <<>>, version |-> U32Of(0),
     err |-> err]

read_preamble(buf) ==
    LET magic_number == read_bytes(buf, 0, 4)
    IN IF ~magic_number.ok THEN PreambleErr(<<"BinaryReaderError", magic_number.err>>)
       ELSE IF magic_number.val = WASM_MAGIC_NUMBER
       THEN LET version == read_double_word(buf, magic_number.pos)
            IN IF ~version.ok THEN PreambleErr(<<"BinaryReaderError", version.err>>)
               ELSE IF version.val = U32Of(WASM_SUPPORTED_VERSION)
               THEN PreambleOk(version.pos, magic_number.val, version.val)
               ELSE PreambleErr(<<"BadVersion">>)
       ELSE PreambleErr(<<"BadMagicNumber">>)

(***************************************************************************)
(* Chunks and parse results (parser.rs).                                   *)
(***************************************************************************)
NoSection == [id |-> 0, kind |-> "None", bytes |-> <<>>]
NoChunk == [kind |-> "None", magic_number |-> <<>>, version |-> U32Of(0),
            section |-> NoSection]
ChunkPreamble(magic_number, version) ==
    [kind |-> "Preamble", magic_number |-> magic_number, version |-> version,
     section |-> NoSection]
ChunkSection(section) ==
    [kind |-> "Section", magic_number |-> <<>>, version |-> U32Of(0),
     section |-> section]
ChunkDone == [NoChunk EXCEPT !.kind = "Done"]

GlobalType(var_type, mutable) == [var_type |-> var_type, mutable |-> mutable]

\* Option<index>
None == [some |-> FALSE, val |-> 0]
Some(v) == [some |-> TRUE, val |-> v]

\* ValidationContext::new
new_context ==
    [function_types |-> <<>>,
     globals |-> <<>>,
     function_type_indices |-> <<>>,
     max_table_index |-> None,
     max_memory_index |-> None]

ParseOk(consumed, c) == [ok |-> TRUE, consumed |-> consumed, chunk |-> c, err |-> <<>>]
ParseErr(err) == [ok |-> FALSE, consumed |-> 0, chunk |-> NoChunk, err |-> err]
NoResult == [ok |-> FALSE, consumed |-> 0, chunk |-> NoChunk, err |-> <<"NotCalled">>]

SectionKind(id) ==
    CASE id = 0 -> "Custom"
      [] id = 1 -> "Type"
      [] id = 2 -> "Import"
      [] id = 3 -> "Function"
      [] id = 4 -> "Table"
      [] id = 5 -> "Memory"
      [] id = 6 -> "Global"
      [] id = 7 -> "Export"
      [] id = 8 -> "Start"
      [] id = 9 -> "Element"
      [] id = 10 -> "Code"
      [] id = 11 -> "Data"
      [] OTHER -> "Unknown"

\* a faulty variant: an id that names no section is an error of the parser
create_section_reader_known_ids(bytes, id) ==
    LET head == IF id = 0 THEN read_string(bytes, 0) ELSE read_leb128_u32(bytes, 0)
    IN IF head.ok /\ id \in 0..11
       THEN [ok |-> TRUE, err |-> <<>>,
             section |-> [id |-> id, kind |-> SectionKind(id), bytes |-> bytes]]
       ELSE [ok |-> FALSE, err |-> <<"BinaryReader", head.err>>, section |-> NoSection]

\* Parser::create_section_reader: the sub-reader's constructor reads the
\* custom section's name, the start section's function index, or the item count.
create_section_reader(bytes, id) ==
    LET head == IF id = 0 THEN read_string(bytes, 0)
                ELSE IF id \in 1..11 THEN read_leb128_u32(bytes, 0)
                ELSE ROk(0, 0)
    IN IF head.ok
       THEN [ok |-> TRUE, err |-> <<>>,
             section |-> [id |-> id, kind |-> SectionKind(id), bytes |-> bytes]]
       ELSE [ok |-> FALSE, err |-> <<"BinaryReader", head.err>>, section |-> NoSection]

\* a faulty variant: the location is not advanced after the preamble
parse_module_header_stays(buf) ==
    LET p == read_preamble(buf)
    IN IF ~p.ok
       THEN [location |-> "ModuleHeader", res |-> ParseErr(<<"PreambleReader">> \o p.err)]
       ELSE [location |-> "ModuleHeader",
             res |-> ParseOk(p.consumed, ChunkPreamble(p.magic_number, p.version))]

\* Parser::parse, ParserLocation::ModuleHeader
parse_module_header(buf) ==
    LET p == read_preamble(buf)
    IN IF ~p.ok
       THEN [location |-> "ModuleHeader", res |-> ParseErr(<<"PreambleReader">> \o p.err)]
       ELSE [location |-> "Section",
             res |-> ParseOk(p.consumed, ChunkPreamble(p.magic_number, p.version))]

\* a faulty variant: consumed is the size of the section's body alone
parse_section_body_size(buf) ==
    IF buf = <<>>
    THEN [location |-> "End", res |-> ParseOk(0, ChunkDone)]
    ELSE LET id == read_byte(buf, 0)
             bytes == read_bytes_vec(buf, id.pos)
             reader == create_section_reader(bytes.val, id.val)
         IN IF ~id.ok
            THEN [location |-> "Section", res |-> ParseErr(<<"BinaryReader", id.err>>)]
            ELSE IF ~bytes.ok
            THEN [location |-> "Section", res |-> ParseErr(<<"BinaryReader", bytes.err>>)]
            ELSE IF ~reader.ok
            THEN [location |-> "Section", res |-> ParseErr(reader.err)]
            ELSE [location |-> "Section",
                  res |-> ParseOk(Len(bytes.val), ChunkSection(reader.section))]

\* Parser::parse, ParserLocation::Section
parse_section(buf) ==
    IF buf = <<>>
    THEN [location |-> "End", res |-> ParseOk(0, ChunkDone)]
    ELSE LET id == read_byte(buf, 0)
             bytes == read_bytes_vec(buf, id.pos)
             reader == create_section_reader(bytes.val, id.val)
         IN IF ~id.ok
            THEN [location |-> "Section", res |-> ParseErr(<<"BinaryReader", id.err>>)]
            ELSE IF ~bytes.ok
            THEN [location |-> "Section", res |-> ParseErr(<<"BinaryReader", bytes.err>>)]
            ELSE IF ~reader.ok
            THEN [location |-> "Section", res |-> ParseErr(reader.err)]
            ELSE [location |-> "Section",
                  res |-> ParseOk(bytes.pos, ChunkSection(reader.section))]

\* a faulty variant: bytes after the end of the module are ignored
parse_end_ignores_bytes(buf) ==
    [location |-> "End", res |-> ParseOk(0, ChunkDone)]

\* Parser::parse, ParserLocation::End
parse_end(buf) ==
    IF buf # <<>>
    THEN [location |-> "End", res |-> ParseErr(<<"UnneededBytes">>)]
    ELSE [location |-> "End", res |-> ParseOk(0, ChunkDone)]

\* a faulty variant: a call that fails gives the module up
parse_fails_to_end(loc, buf) ==
    LET r == CASE loc = "ModuleHeader" -> parse_module_header(buf)
               [] loc = "Section" -> parse_section(buf)
               [] loc = "End" -> parse_end(buf)
    IN IF r.res.ok THEN r ELSE [r EXCEPT !.location = "End"]

\* Parser::parse: the new location and the returned value
parse(loc, buf) ==
    CASE loc = "ModuleHeader" -> parse_module_header(buf)
      [] loc = "Section" -> parse_section(buf)
      [] loc = "End" -> parse_end(buf)

(***************************************************************************)
(* validate_preamble (validators/preamble.rs) and the part of              *)
(* Validator::validate (validators/module.rs) that needs no context.       *)
(***************************************************************************)
\* a faulty variant: the version is looked at before the magic number
validate_preamble_version_first(magic_number, version) ==
    IF version = U32Of(WASM_SUPPORTED_VERSION)
    THEN IF magic_number = WASM_MAGIC_NUMBER THEN "Ok" ELSE "BadMagicNumber"
    ELSE "BadVersion"

validate_preamble(magic_number, version) ==
    IF magic_number = WASM_MAGIC_NUMBER
    THEN IF version = U32Of(WASM_SUPPORTED_VERSION) THEN "Ok" ELSE "BadVersion"
    ELSE "BadMagicNumber"

\* Validator::validate on a Preamble chunk, a Done chunk, a custom section
\* and a section of unknown id
validate(c) ==
    CASE c.kind = "Preamble" -> validate_preamble(c.magic_number, c.version)
      [] c.kind = "Section" /\ c.section.kind = "Unknown" -> "UnknownSection"
      [] OTHER -> "Ok"

(***************************************************************************)
(* The inputs of the model.                                                *)
(***************************************************************************)
Magics == {WASM_MAGIC_NUMBER, <<0, 97, 115, 110>>, <<1, 97, 115, 109>>}
VersionBytes == {<<1, 0, 0, 0>>, <<2, 0, 0, 0>>, <<0, 0, 0, 0>>, <<1, 0, 0, 128>>}
SectionBytes == {0, 1, 129}
\* whole preambles, and every shorter prefix of one
Preambles == {m \o v : m \in Magics, v \in VersionBytes}
PreambleBuffers == UNION {Prefixes(p) : p \in Preambles}
SectionBuffers == SeqsUpTo(SectionBytes, MaxSectionLen)
\* a preamble followed by the first byte of a section
LongBuffers == {p \o <<b>> : p \in Preambles, b \in {0, 1}}
Buffers == PreambleBuffers \cup SectionBuffers \cup LongBuffers

\* the files the driver is run on: a preamble, whole or cut short, followed by
\* section bytes
DriverPreambles ==
    {WASM_MAGIC_NUMBER \o <<1, 0, 0, 0>>, WASM_MAGIC_NUMBER \o <<2, 0, 0, 0>>,
     WASM_MAGIC_NUMBER, <<0, 97, 115, 110, 1, 0, 0, 0>>}
DriverSections == SeqsUpTo(SectionBytes, MaxSectionLen + 2)
DriverInputs == {p \o s : p \in DriverPreambles, s \in DriverSections}

\* every buffer a parse call is made with: a client's, or the driver's `v`
\* after whole chunks were drained
ParseBuffers == Buffers \cup DriverInputs \cup DriverSections

\* Parser::parse tabulated over these buffers (evaluated once)
parse_table == [l \in {"ModuleHeader", "Section", "End"}, b \in ParseBuffers |-> parse(l, b)]
call_parse(l, b) == parse_table[l, b]

InitParser ==
    /\ location = "ModuleHeader"
    /\ buffer = <<>>
    /\ result = NoResult
    /\ prevLocation = "ModuleHeader"
    /\ emitted = <<>>
\* no reader of its own is under test
NoNum == [kind |-> "none", val |-> <<>>]
NoRead == [op |-> "none", res |-> RErr("NotCalled", 0)]
BinaryReader(buf) == [buffer |-> buf, position |-> 0]

\* no iterator was made yet
SubReader(buf, position, count) == [buffer |-> buf, position |-> position, count |-> count]
NoIterator == [reader |-> SubReader(<<>>, 0, 0), error |-> FALSE, remaining |-> 0]
InitIterator ==
    /\ iterator = NoIterator
    /\ yielded = <<>>

InitReader ==
    /\ binary_reader = BinaryReader(<<>>)
    /\ num = NoNum
    /\ read = NoRead
    /\ InitIterator

InitValidate ==
    /\ chunk = NoChunk
    /\ vresult = "NotCalled"
    /\ context = new_context
    /\ prevContext = new_context
    /\ imported = <<>>
InitCode ==
    /\ func_type_index = 0
    /\ body = <<>>
    /\ operand_stack = <<>>
    /\ control_stack = <<>>
    /\ status = <<"NotStarted">>
    /\ prev = [operand_stack |-> <<>>, control_stack |-> <<>>, status |-> <<"NotStarted">>]

(***************************************************************************)
(* Spec: a client of the library calls Parser::parse, each time with any   *)
(* buffer.                                                                 *)
(***************************************************************************)
Init ==
    /\ InitParser
    /\ InitReader
    /\ pc = "api"
    /\ InitValidate
    /\ InitCode

Parse(b) ==
    /\ pc = "api"
    /\ Len(emitted) < MaxCalls
    /\ \E r \in {call_parse(location, b)} :
          /\ location' = r.location
          /\ result' = r.res
          /\ emitted' = IF r.res.ok THEN Append(emitted, r.res.chunk.kind) ELSE emitted
    /\ buffer' = b
    /\ prevLocation' = location
    /\ UNCHANGED <<pc, validateVars, codeVars, readerVars>>

ParseCall == \E b \in Buffers : Parse(b)

Next == ParseCall

Spec == Init /\ [][Next]_vars

(***************************************************************************)
(* SpecDriver: the loop of main (main.rs): parse the buffered bytes,       *)
(* validate the chunk, read the section's items, drain the consumed bytes. *)
(* What validation and item reading make of a section of a known kind      *)
(* depends on bytes and context this model does not follow: both outcomes  *)
(* are allowed.                                                            *)
(***************************************************************************)
InitDriver ==
    /\ InitParser
    /\ InitReader
    /\ pc = "read"
    /\ InitValidate
    /\ InitCode

\* reader.read_to_end(&mut v)
DriverReads ==
    /\ pc = "read"
    /\ buffer' \in DriverInputs
    /\ pc' = "loop"
    /\ UNCHANGED <<location, result, prevLocation, emitted, validateVars, codeVars, readerVars>>

\* parser.parse(&v): what every turn of the loop begins with
DriverCall(r) ==
    /\ pc = "loop"
    /\ location' = r.location
    /\ result' = r.res
    /\ prevLocation' = location
    /\ UNCHANGED <<emitted, validateVars, codeVars, readerVars>>

\* parser.parse(&v)? fails
DriverParseFails(r) ==
    /\ ~r.res.ok
    /\ pc' = "error"
    /\ UNCHANGED buffer

\* validator.validate(&chunk)? fails on the chunk's kind
DriverValidateFails(r) ==
    /\ r.res.ok
    /\ validate(r.res.chunk) # "Ok"
    /\ pc' = "error"
    /\ UNCHANGED buffer

\* validator.validate(&chunk)? fails on a section's items, or a reader.read()?
\* of the printing code fails: either may happen for any section with items
DriverRejects(r) ==
    /\ r.res.ok
    /\ validate(r.res.chunk) = "Ok"
    /\ r.res.chunk.kind = "Section"
    /\ r.res.chunk.section.kind # "Custom"
    /\ pc' = "error"
    /\ UNCHANGED buffer

\* the chunk is a preamble or a section: v.drain(..consumed)
DriverDrains(r) ==
    /\ r.res.ok
    /\ r.res.chunk.kind # "Done"
    /\ validate(r.res.chunk) = "Ok"
    /\ pc' = "loop"
    /\ buffer' = SubSeq(buffer, r.res.consumed + 1, Len(buffer))

\* the loop's last arm without its break: a Done chunk goes round again
DriverDone_continues(r) ==
    /\ r.res.ok
    /\ r.res.chunk.kind = "Done"
    /\ validate(r.res.chunk) = "Ok"
    /\ pc' = "loop"
    /\ UNCHANGED buffer

\* the chunk is Done: break
DriverDone(r) ==
    /\ r.res.ok
    /\ r.res.chunk.kind = "Done"
    /\ validate(r.res.chunk) = "Ok"
    /\ pc' = "done"
    /\ UNCHANGED buffer

\* one turn of the loop as the program takes it by itself
DriverTurn ==
    \E r \in {call_parse(location, buffer)} :
       /\ DriverCall(r)
       /\ \/ DriverParseFails(r)
          \/ DriverValidateFails(r)
          \/ DriverDrains(r)
          \/ DriverDone(r)

\* one turn of the loop ended by an error of a section's items
DriverTurnRejected ==
    \E r \in {call_parse(location, buffer)} :
       /\ DriverCall(r)
       /\ DriverRejects(r)

\* the steps the running program takes by itself; DriverTurnRejected is left
\* out, so that no progress is owed to an error that the items may or may not
\* raise
DriverRuns == DriverReads \/ DriverTurn

NextDriver == DriverReads \/ DriverTurn \/ DriverTurnRejected

SpecDriver == InitDriver /\ [][NextDriver]_vars /\ WF_vars(DriverRuns)
(***************************************************************************)
(* SpecValidate: Validator::validate is handed a chunk.                    *)
(***************************************************************************)
MagicAlphabet == {0, 97, 109, 110, 115}
\* the magic number, and the magic number with one byte changed
ValidateMagics ==
    {[WASM_MAGIC_NUMBER EXCEPT ![i] = b] : i \in 1..4, b \in MagicAlphabet}
ValidateVersions ==
    {U32Of(0), U32Of(1), U32Of(2), U32Of(3), U32Of(256), U32Of(257), U32Of(65536),
     U32Of(16777216), U32(1, 0), U32(8, 1)}
ValidateChunks ==
    {ChunkPreamble(m, v) : m \in ValidateMagics, v \in ValidateVersions}
    \cup {ChunkDone}
    \cup {ChunkSection([id |-> id, kind |-> SectionKind(id), bytes |-> <<>>]) : id \in {0, 12, 129}}

InitValidator ==
    /\ InitParser
    /\ InitReader
    /\ pc = "api"
    /\ InitValidate
    /\ InitCode

Validate(c) ==
    /\ chunk' = c
    /\ vresult' = validate(c)
    /\ prevContext' = context
    /\ UNCHANGED <<parserVars, codeVars, readerVars, context, imported>>

ValidateCall == \E c \in ValidateChunks : Validate(c)

NextValidate == ValidateCall

SpecValidate == InitValidator /\ [][NextValidate]_vars
(***************************************************************************)
(* The function-body type checker (validators/code.rs).                    *)
(*                                                                         *)
(* A checker state is a record [operand_stack, control_stack, err, popped]:*)
(* the two stacks of CodeValidatorState, the Result so far (<<"Ok">> or    *)
(* the error) and the operand the last pop returned.  Every operation      *)
(* passes an erroneous state through unchanged, as `?` does.               *)
(***************************************************************************)
Ok == <<"Ok">>

ValueTypes == {"I32", "I64", "F32", "F64"}

Known(ty) == ty
Unknown == "Unknown"

is_known(operand) == operand # Unknown
is_unknown(operand) == ~is_known(operand)

Empty == [kind |-> "Empty", value_type |-> "None", type_index |-> 0]
ValueType(ty) == [kind |-> "ValueType", value_type |-> ty, type_index |-> 0]
TypeIndex(i) == [kind |-> "TypeIndex", value_type |-> "None", type_index |-> i]

FunctionType(ps, rs) == [params |-> ps, results |-> rs]

\* what Validator::validate hands to CodeValidator::validate from its context
function_types == context.function_types
function_type_indices == context.function_type_indices
globals == context.globals
max_table_index == context.max_table_index
max_memory_index == context.max_memory_index

Reverse(s) == [i \in 1..Len(s) |-> s[Len(s) + 1 - i]]

Last(s) == s[Len(s)]

\* the last instruction validated is an `op`
LastIs(op) == body # <<>> /\ Last(body).op = op

Fail(st, e) == [st EXCEPT !.err = e]

get_func_type_index(function_index) ==
    IF function_index < Len(function_type_indices)
    THEN [err |-> Ok, val |-> function_type_indices[function_index + 1]]
    ELSE [err |-> <<"InvalidFunctionIndex", function_index>>, val |-> 0]

\* BlockType::params
params(block_type) ==
    IF block_type.kind = "TypeIndex"
    THEN IF block_type.type_index < Len(function_types)
         THEN [err |-> Ok, types |-> function_types[block_type.type_index + 1].params]
         ELSE [err |-> <<"InvalidTypeIndex", block_type.type_index>>, types |-> <<>>]
    ELSE [err |-> Ok, types |-> <<>>]

\* BlockType::results
results(block_type) ==
    CASE block_type.kind = "Empty" -> [err |-> Ok, types |-> <<>>]
      [] block_type.kind = "ValueType" -> [err |-> Ok, types |-> <<block_type.value_type>>]
      [] block_type.kind = "TypeIndex" ->
            IF block_type.type_index < Len(function_types)
            THEN [err |-> Ok, types |-> function_types[block_type.type_index + 1].results]
            ELSE [err |-> <<"InvalidTypeIndex", block_type.type_index>>, types |-> <<>>]

\* the parameters of the function followed by its declared locals (none here)
create_locals(type_index) == function_types[type_index + 1].params

ControlFrame(kind, block_type, height, unreachable_) ==
    [kind |-> kind, block_type |-> block_type, height |-> height, unreachable |-> unreachable_]

\* CodeValidatorState::new
new(type_index) ==
    [operand_stack |-> <<>>,
     control_stack |-> <<ControlFrame("Block", TypeIndex(type_index), 0, FALSE)>>,
     err |-> Ok,
     popped |-> Unknown]

push_operand(st, operand) ==
    IF st.err # Ok THEN st
    ELSE [st EXCEPT !.operand_stack = Append(@, operand)]

push_known(st, ty) == push_operand(st, Known(ty))

RECURSIVE push_knowns(_, _)
push_knowns(st, tys) ==
    IF tys = <<>> THEN st ELSE push_knowns(push_known(st, Head(tys)), Tail(tys))

\* a faulty variant: the height of the frame is not looked at
pop_operand_below_frame(st) ==
    IF st.err # Ok THEN st
    ELSE IF st.operand_stack = <<>> THEN Fail(st, <<"OperandStackEmpty">>)
    ELSE [st EXCEPT !.popped = st.operand_stack[Len(st.operand_stack)],
                    !.operand_stack = SubSeq(@, 1, Len(@) - 1)]

pop_operand(st) ==
    IF st.err # Ok THEN st
    ELSE IF st.control_stack = <<>> THEN Fail(st, <<"Panic">>)
    ELSE LET last == st.control_stack[Len(st.control_stack)]
         IN IF Len(st.operand_stack) = last.height
            THEN IF last.unreachable
                 THEN [st EXCEPT !.popped = Unknown]
                 ELSE Fail(st, <<"OperandStackEmpty">>)
            ELSE [st EXCEPT !.popped = st.operand_stack[Len(st.operand_stack)],
                            !.operand_stack = SubSeq(@, 1, Len(@) - 1)]

pop_expected(st, expected) ==
    LET s1 == pop_operand(st)
        actual == s1.popped
    IN IF s1.err # Ok THEN s1
       ELSE IF is_unknown(actual) THEN [s1 EXCEPT !.popped = expected]
       ELSE IF is_unknown(expected) THEN s1
       ELSE IF actual # expected THEN Fail(s1, <<"TypeMismatch", expected, actual>>)
       ELSE s1

pop_known(st, expected) == pop_expected(st, Known(expected))

\* pop_known for each type of tys, first to last
RECURSIVE pop_knowns(_, _)
pop_knowns(st, tys) ==
    IF tys = <<>> \/ st.err # Ok THEN st
    ELSE pop_knowns(pop_known(st, Head(tys)), Tail(tys))

push_control_frame(st, kind, block_type) ==
    IF st.err # Ok THEN st
    ELSE [st EXCEPT !.control_stack =
              Append(@, ControlFrame(kind, block_type, Len(st.operand_stack), FALSE))]

pop_control_frame(st) ==
    IF st.err # Ok THEN st
    ELSE IF st.control_stack = <<>> THEN Fail(st, <<"Panic">>)
    ELSE LET last == st.control_stack[Len(st.control_stack)]
             height == last.height
             s1 == CASE last.block_type.kind = "Empty" -> st
                     [] last.block_type.kind = "ValueType" ->
                            pop_known(st, last.block_type.value_type)
                     [] last.block_type.kind = "TypeIndex" ->
                            IF last.block_type.type_index < Len(function_types)
                            THEN pop_knowns(st,
                                     Reverse(function_types[last.block_type.type_index + 1].results))
                            ELSE Fail(st, <<"InvalidTypeIndex", last.block_type.type_index>>)
         IN IF s1.err # Ok THEN s1
            ELSE IF Len(s1.operand_stack) # height THEN Fail(s1, <<"ValuesAtEndOfBlock">>)
            ELSE [s1 EXCEPT !.control_stack = SubSeq(@, 1, Len(@) - 1)]

get_local(locals, local_index) ==
    IF local_index < Len(locals)
    THEN [err |-> Ok, ty |-> locals[local_index + 1]]
    ELSE [err |-> <<"InvalidLocalIndex", local_index>>, ty |-> "None"]

\* CodeValidatorState::get_global, on the globals of the context
get_global(global_index) ==
    IF global_index < Len(globals)
    THEN [err |-> Ok, ty |-> globals[global_index + 1]]
    ELSE [err |-> <<"InvalidGlobalIndex", global_index>>, ty |-> GlobalType("None", FALSE)]

unreachable(st) ==
    IF st.err # Ok THEN st
    ELSE IF st.control_stack = <<>> THEN Fail(st, <<"Panic">>)
    ELSE LET n == Len(st.control_stack)
             last == st.control_stack[n]
         IN [st EXCEPT !.operand_stack = SubSeq(@, 1, last.height),
                       !.control_stack[n].unreachable = TRUE]

validate_block_type(st, kind, block_type) ==
    IF st.err # Ok THEN st
    ELSE LET ps == params(block_type)
         IN IF ps.err # Ok THEN Fail(st, ps.err)
            ELSE push_control_frame(pop_knowns(st, ps.types), kind, block_type)

validate_jump(st, label_index) ==
    IF Len(st.control_stack) - 1 - label_index < 0
    THEN [err |-> <<"InvalidLabelIndex", label_index>>, kind |-> "Block", block_type |-> Empty]
    ELSE LET frame == st.control_stack[Len(st.control_stack) - label_index]
         IN [err |-> Ok, kind |-> frame.kind, block_type |-> frame.block_type]

get_label_types(kind, block_type) ==
    IF kind = "Loop" THEN params(block_type) ELSE results(block_type)

MemoryArgument(alignment, offset) == [alignment |-> alignment, offset |-> offset]

Instr(op, block_type, index) ==
    [op |-> op, block_type |-> block_type, index |-> index, labels |-> <<>>,
     memory_argument |-> MemoryArgument(U32(0, 0), U32(0, 0))]

\* a load or a store instruction with its MemoryArgument
MemoryInstr(op, memory_argument) ==
    [Instr(op, Empty, 0) EXCEPT !.memory_argument = memory_argument]

\* Instruction::BranchTable: the labels the reader yields, the default last
BranchTable(labels) == [Instr("BranchTable", Empty, 0) EXCEPT !.labels = labels]

\* Instruction::Unreachable
validate_unreachable(st) == unreachable(st)

\* Instruction::Else
validate_else(st) ==
    IF st.control_stack = <<>> THEN Fail(st, <<"Panic">>)
    ELSE LET frame == st.control_stack[Len(st.control_stack)]
         IN push_control_frame(pop_control_frame(st), "Else", frame.block_type)

\* Instruction::End
validate_end(st) == st

\* Instruction::Branch
validate_branch(st, label_index) ==
    LET target == validate_jump(st, label_index)
        tys == get_label_types(target.kind, target.block_type)
    IN IF target.err # Ok THEN Fail(st, target.err)
       ELSE IF tys.err # Ok THEN Fail(st, tys.err)
       ELSE unreachable(pop_knowns(st, Reverse(tys.types)))

\* Instruction::BranchIf
validate_branch_if(st, label_index) ==
    LET target == validate_jump(st, label_index)
        tys == get_label_types(target.kind, target.block_type)
    IN IF target.err # Ok THEN Fail(st, target.err)
       ELSE IF tys.err # Ok THEN Fail(st, tys.err)
       ELSE unreachable(push_knowns(pop_knowns(st, Reverse(tys.types)), tys.types))

\* Instruction::Return
validate_return(st) ==
    LET block_type == st.control_stack[1].block_type
        s1 == CASE block_type.kind = "Empty" -> st
                [] block_type.kind = "ValueType" -> pop_known(st, block_type.value_type)
                [] block_type.kind = "TypeIndex" ->
                       IF block_type.type_index < Len(function_types)
                       THEN pop_knowns(st,
                                Reverse(function_types[block_type.type_index + 1].results))
                       ELSE Fail(st, <<"InvalidTypeIndex", block_type.type_index>>)
    IN unreachable(s1)

\* Instruction::Select
validate_select(st) ==
    LET s1 == pop_known(st, "I32")
        s2 == pop_operand(s1)
        first == s2.popped
        s3 == pop_operand(s2)
        second == s3.popped
    IN IF s3.err # Ok THEN s3
       ELSE IF is_unknown(first) \/ is_unknown(second) \/ first # second
            THEN Fail(s3, <<"TypeMismatch", first, second>>)
            ELSE push_operand(s3, second)

NoLabel == [some |-> FALSE, kind |-> "Block", block_type |-> Empty]

\* the `for label_index in reader` loop of the BranchTable arm; `label` is the
\* first target once one was seen
RECURSIVE branch_table_labels(_, _, _)
branch_table_labels(st, labels, label) ==
    IF labels = <<>> THEN [err |-> Ok, label |-> label]
    ELSE LET block == validate_jump(st, Head(labels))
         IN IF block.err # Ok THEN [err |-> block.err, label |-> label]
            ELSE IF ~label.some
                 THEN branch_table_labels(st, Tail(labels),
                          [some |-> TRUE, kind |-> block.kind, block_type |-> block.block_type])
            ELSE LET a == get_label_types(block.kind, block.block_type)
                     b == get_label_types(label.kind, label.block_type)
                 IN IF a.err # Ok THEN [err |-> a.err, label |-> label]
                    ELSE IF b.err # Ok THEN [err |-> b.err, label |-> label]
                    ELSE IF a.types # b.types
                         THEN [err |-> <<"TargetLabelsTypeMismatch">>, label |-> label]
                    ELSE branch_table_labels(st, Tail(labels), label)

\* a faulty variant: the targets' label types are not compared
validate_branch_table_first_only(st, labels) ==
    LET s1 == pop_known(st, "I32")
        block == validate_jump(s1, Head(labels))
        tys == get_label_types(block.kind, block.block_type)
    IN IF s1.err # Ok THEN s1
       ELSE IF block.err # Ok THEN Fail(s1, block.err)
       ELSE unreachable(pop_knowns(s1, Reverse(tys.types)))

\* Instruction::BranchTable
validate_branch_table(st, labels) ==
    LET s1 == pop_known(st, "I32")
        seen == branch_table_labels(s1, labels, NoLabel)
        tys == get_label_types(seen.label.kind, seen.label.block_type)
    IN IF s1.err # Ok THEN s1
       ELSE IF seen.err # Ok THEN Fail(s1, seen.err)
       ELSE IF ~seen.label.some THEN Fail(s1, <<"Panic">>)
       ELSE IF tys.err # Ok THEN Fail(s1, tys.err)
       ELSE unreachable(pop_knowns(s1, Reverse(tys.types)))

\* Instruction::GlobalGet
validate_global_get(st, global_index) ==
    LET global_type == get_global(global_index)
    IN IF global_type.err # Ok THEN Fail(st, global_type.err)
       ELSE push_known(st, global_type.ty.var_type)

\* a faulty variant: the mutability of the global is not looked at
validate_global_set_any(st, global_index) ==
    LET global_type == get_global(global_index)
    IN IF global_type.err # Ok THEN Fail(st, global_type.err)
       ELSE pop_known(st, global_type.ty.var_type)

\* Instruction::GlobalSet
validate_global_set(st, global_index) ==
    LET global_type == get_global(global_index)
    IN IF global_type.err # Ok THEN Fail(st, global_type.err)
       ELSE LET s1 == pop_known(st, global_type.ty.var_type)
            IN IF s1.err # Ok THEN s1
               ELSE IF ~global_type.ty.mutable
                    THEN Fail(s1, <<"SettingImmutableGlobal", global_index>>)
                    ELSE s1

validate_memory_index(st) ==
    IF st.err # Ok THEN st
    ELSE IF ~max_memory_index.some THEN Fail(st, <<"UndefinedMemory">>)
    ELSE st

\* a faulty variant: the alignment is looked at, the memory is not
validate_alignment_only(st, memory_argument, max_alignment) ==
    IF st.err # Ok THEN st
    ELSE IF ~(memory_argument.alignment.hi = 0 /\ memory_argument.alignment.lo <= max_alignment)
    THEN Fail(st, <<"InvalidMemoryAlignment">>)
    ELSE st

validate_memory_index_and_alignment(st, memory_argument, max_alignment) ==
    LET s1 == validate_memory_index(st)
    IN IF s1.err # Ok THEN s1
       ELSE IF ~(memory_argument.alignment.hi = 0 /\ memory_argument.alignment.lo <= max_alignment)
       THEN Fail(s1, <<"InvalidMemoryAlignment">>)
       ELSE s1

validate_load(st, memory_argument, max_alignment, result_type) ==
    push_known(pop_known(validate_memory_index_and_alignment(st, memory_argument, max_alignment),
                         "I32"),
               result_type)

validate_store(st, memory_argument, max_alignment, param_type) ==
    pop_known(pop_known(validate_memory_index_and_alignment(st, memory_argument, max_alignment),
                        param_type),
              "I32")

\* the load arms of validate_instruction: max_alignment and result_type
LoadArms ==
    [I32Load |-> <<2, "I32">>, I64Load |-> <<3, "I64">>,
     F32Load |-> <<2, "F32">>, F64Load |-> <<3, "F64">>,
     I32Load8s |-> <<0, "I32">>, I32Load8u |-> <<0, "I32">>,
     I32Load16s |-> <<1, "I32">>, I32Load16u |-> <<1, "I32">>,
     I64Load8s |-> <<0, "I64">>, I64Load8u |-> <<0, "I64">>,
     I64Load16s |-> <<1, "I64">>, I64Load16u |-> <<1, "I64">>,
     I64Load32s |-> <<2, "I64">>, I64Load32u |-> <<2, "I64">>]

\* the store arms of validate_instruction: max_alignment and param_type
StoreArms ==
    [I32Store |-> <<2, "I32">>, I64Store |-> <<3, "I64">>,
     F32Store |-> <<2, "F32">>, F64Store |-> <<3, "F64">>,
     I32Store8 |-> <<0, "I32">>, I32Store16 |-> <<1, "I32">>,
     I64Store8 |-> <<0, "I64">>, I64Store16 |-> <<1, "I64">>,
     I64Store32 |-> <<2, "I64">>]

validate_instruction(st, instruction, locals) ==
    LET op == instruction.op
    IN CASE op = "Unreachable" -> validate_unreachable(st)
         [] op = "Nop" -> st
         [] op = "Block" -> validate_block_type(st, "Block", instruction.block_type)
         [] op = "Loop" -> validate_block_type(st, "Loop", instruction.block_type)
         [] op = "If" ->
                validate_block_type(pop_known(st, "I32"), "If", instruction.block_type)
         [] op = "Else" -> validate_else(st)
         [] op = "End" -> validate_end(st)
         [] op = "Branch" -> validate_branch(st, instruction.index)
         [] op = "BranchIf" -> validate_branch_if(st, instruction.index)
         [] op = "BranchTable" -> validate_branch_table(st, instruction.labels)
         [] op = "Return" -> validate_return(st)
         [] op = "Drop" -> pop_operand(st)
         [] op = "Select" -> validate_select(st)
         [] op = "LocalGet" ->
                LET local_type == get_local(locals, instruction.index)
                IN IF local_type.err # Ok THEN Fail(st, local_type.err)
                   ELSE push_known(st, local_type.ty)
         [] op = "LocalSet" ->
                LET local_type == get_local(locals, instruction.index)
                IN IF local_type.err # Ok THEN Fail(st, local_type.err)
                   ELSE pop_known(st, local_type.ty)
         [] op = "LocalTee" ->
                LET local_type == get_local(locals, instruction.index)
                IN IF local_type.err # Ok THEN Fail(st, local_type.err)
                   ELSE push_known(pop_known(st, local_type.ty), local_type.ty)
         [] op = "GlobalGet" -> validate_global_get(st, instruction.index)
         [] op = "GlobalSet" -> validate_global_set(st, instruction.index)
         [] op \in DOMAIN LoadArms ->
                validate_load(st, instruction.memory_argument, LoadArms[op][1], LoadArms[op][2])
         [] op \in DOMAIN StoreArms ->
                validate_store(st, instruction.memory_argument, StoreArms[op][1], StoreArms[op][2])
         [] op = "MemorySize" -> push_known(validate_memory_index(st), "I32")
         [] op = "MemoryGrow" ->
                push_known(pop_known(validate_memory_index(st), "I32"), "I32")
         [] op = "I32Const" -> push_known(st, "I32")
         [] op = "I64Const" -> push_known(st, "I64")
         [] op = "F32Const" -> push_known(st, "F32")
         [] op = "F64Const" -> push_known(st, "F64")
         [] op = "I32Eqz" -> push_known(pop_known(st, "I32"), "I32")
         [] op = "I64Eqz" -> push_known(pop_known(st, "I64"), "I32")
         [] op = "I32Add" -> push_known(pop_known(pop_known(st, "I32"), "I32"), "I32")

(***************************************************************************)
(* The module validator. A section is handed over decoded: its kind and    *)
(* the items its reader yields, in order. An initializer expression is the *)
(* sequence of instructions its instruction reader yields; a read past its *)
(* end fails.                                                              *)
(***************************************************************************)
InvalidInitExpr == <<"InvalidInitExpr">>
InstructionReaderError == <<"InstructionReaderError">>

U32Le(a, b) == a.hi < b.hi \/ (a.hi = b.hi /\ a.lo <= b.lo)
\* u32::max_value()
u32_max_value == U32(15, 2^28 - 1)

Limits(min, max) == [min |-> min, max |-> max]

ImportFunc(type_index) == [kind |-> "Func", type_index |-> type_index]
ImportTable(limits) == [kind |-> "Table", limits |-> limits]
ImportMemory(limits) == [kind |-> "Memory", limits |-> limits]
ImportGlobal(global_type) == [kind |-> "Global", global_type |-> global_type]

GlobalSegment(global_type, expr) == [global_type |-> global_type, expr |-> expr]
Export(name, kind, index) == [name |-> name, kind |-> kind, index |-> index]
ElementSegment(table_index, expr, function_indices) ==
    [table_index |-> table_index, expr |-> expr, function_indices |-> function_indices]
DataSegment(memory_index, expr) == [memory_index |-> memory_index, expr |-> expr]
Code(instructions) == [instructions |-> instructions]

Section(kind, items) == [kind |-> kind, items |-> items]

get_max_type_index(ctx) ==
    IF ctx.function_types = <<>> THEN None ELSE Some(Len(ctx.function_types) - 1)

get_max_global_index(ctx) ==
    IF ctx.globals = <<>> THEN None ELSE Some(Len(ctx.globals) - 1)

get_max_function_index(ctx) ==
    IF ctx.function_type_indices = <<>> THEN None
    ELSE Some(Len(ctx.function_type_indices) - 1)

get_max_table_index(ctx) == ctx.max_table_index

get_max_memory_index(ctx) == ctx.max_memory_index

add_table_type(ctx) ==
    [ctx EXCEPT !.max_table_index = IF @.some THEN Some(@.val + 1) ELSE Some(0)]

add_memory_type(ctx) ==
    [ctx EXCEPT !.max_memory_index = IF @.some THEN Some(@.val + 1) ELSE Some(0)]

add_function_type(ctx, function_type) ==
    [ctx EXCEPT !.function_types = Append(@, function_type)]

add_type_index(ctx, type_index) ==
    [ctx EXCEPT !.function_type_indices = Append(@, type_index)]

\* a faulty variant: the global is put in front
add_global_type_front(ctx, global_type) ==
    [ctx EXCEPT !.globals = <<global_type>> \o @]

add_global_type(ctx, global_type) ==
    [ctx EXCEPT !.globals = Append(@, global_type)]

\* the Func arm pushes nothing: its push is commented out in the source
add_import_desc(ctx, import_desc) ==
    CASE import_desc.kind = "Func" -> ctx
      [] import_desc.kind = "Table" -> add_table_type(ctx)
      [] import_desc.kind = "Memory" -> add_memory_type(ctx)
      [] import_desc.kind = "Global" -> add_global_type(ctx, import_desc.global_type)

validate_type_index(type_index, max_type_index_) ==
    IF max_type_index_.some
    THEN IF type_index > max_type_index_.val THEN <<"InvalidTypeIndex">> ELSE Ok
    ELSE <<"InvalidTypeIndex">>

\* a faulty variant: min is not compared with max
limits_in_range_unordered(limits, range) ==
    /\ U32Le(limits.min, range)
    /\ IF limits.max.some THEN U32Le(limits.max.val, range) ELSE TRUE

limits_in_range(limits, range) ==
    /\ U32Le(limits.min, range)
    /\ IF limits.max.some
       THEN U32Le(limits.max.val, range) /\ U32Le(limits.min, limits.max.val)
       ELSE TRUE

validate_import_desc(import_desc, max_type_index_) ==
    CASE import_desc.kind = "Func" ->
            IF validate_type_index(import_desc.type_index, max_type_index_) # Ok
            THEN <<"InvalidFuncTypeIndex">> ELSE Ok
      [] import_desc.kind = "Table" ->
            IF ~limits_in_range(import_desc.limits, u32_max_value)
            THEN <<"InvalidTableLimits">> ELSE Ok
      [] import_desc.kind = "Memory" ->
            IF ~limits_in_range(import_desc.limits, U32Of(65536))
            THEN <<"InvalidMemoryLimits">> ELSE Ok
      [] OTHER -> Ok

\* a memory type is its limits
validate_memory_type(limits) ==
    IF ~limits_in_range(limits, U32Of(65536)) THEN <<"InvalidMemoryLimits">> ELSE Ok

\* the type of the first instruction of an initializer, "None" when it is
\* neither a constant nor a global.get of an entry of gs
const_type(instruction, gs) ==
    CASE instruction.op = "I32Const" -> "I32"
      [] instruction.op = "I64Const" -> "I64"
      [] instruction.op = "F32Const" -> "F32"
      [] instruction.op = "F64Const" -> "F64"
      [] instruction.op = "GlobalGet" ->
            IF instruction.index < Len(gs) THEN gs[instruction.index + 1].var_type
            ELSE "None"
      [] OTHER -> "None"

is_expr_const_and_of_right_type(expr, expected_type, gs) ==
    IF Len(expr) < 1 THEN InstructionReaderError
    ELSE IF const_type(expr[1], gs) = "None" THEN InvalidInitExpr
    ELSE IF const_type(expr[1], gs) # expected_type THEN InvalidInitExpr
    ELSE IF Len(expr) < 2 THEN InstructionReaderError
    ELSE IF expr[2].op # "End" THEN InvalidInitExpr
    ELSE IF Len(expr) >= 3 THEN InvalidInitExpr
    ELSE Ok

validate_global_type(global, gs) ==
    IF Len(global.expr) < 1 THEN InstructionReaderError
    ELSE IF const_type(global.expr[1], gs) = "None" THEN InvalidInitExpr
    ELSE IF const_type(global.expr[1], gs) # global.global_type.var_type THEN InvalidInitExpr
    ELSE IF Len(global.expr) < 2 THEN InstructionReaderError
    ELSE IF global.expr[2].op # "End" THEN InvalidInitExpr
    ELSE IF Len(global.expr) >= 3 THEN InvalidInitExpr
    ELSE Ok

\* ExportValidator::validate, after the name was inserted
validate_export_descriptor(export, max_func_index, max_table_index_, max_memory_index_, max_global_index) ==
    CASE export.kind = "Func" ->
            IF ~max_func_index.some \/ export.index > max_func_index.val
            THEN <<"InvalidFuncIndex", export.index>> ELSE Ok
      [] export.kind = "Table" ->
            IF ~max_table_index_.some \/ export.index > max_table_index_.val
            THEN <<"InvalidTableIndex", export.index>> ELSE Ok
      [] export.kind = "Memory" ->
            IF ~max_memory_index_.some \/ export.index > max_memory_index_.val
            THEN <<"InvalidMemoryIndex", export.index>> ELSE Ok
      [] export.kind = "Global" ->
            IF ~max_global_index.some \/ export.index > max_global_index.val
            THEN <<"InvalidGlobalIndex", export.index>> ELSE Ok

\* ExportValidator::validate with the maxima of ctx: the names seen and the result
validate_export(exported_names, export, ctx) ==
    IF export.name \in exported_names
    THEN [exported_names |-> exported_names, result |-> <<"DuplicateName">>]
    ELSE [exported_names |-> exported_names \cup {export.name},
          result |-> validate_export_descriptor(export, get_max_function_index(ctx),
                         get_max_table_index(ctx), get_max_memory_index(ctx),
                         get_max_global_index(ctx))]

validate_start(start_func_index, func_type_indices, function_types_) ==
    IF start_func_index >= Len(func_type_indices)
    THEN <<"InvalidFuncIndex", start_func_index>>
    ELSE LET type_index == func_type_indices[start_func_index + 1]
         IN IF type_index >= Len(function_types_)
            THEN <<"InvalidTypeIndex", type_index>>
            ELSE IF function_types_[type_index + 1].params # <<>>
                    \/ function_types_[type_index + 1].results # <<>>
                 THEN <<"InvalidType">>
                 ELSE Ok

validate_element(element_segment, max_table_index_, max_func_index, gs) ==
    IF ~max_table_index_.some \/ element_segment.table_index > max_table_index_.val
    THEN <<"InvalidTableIndex", element_segment.table_index>>
    ELSE IF is_expr_const_and_of_right_type(element_segment.expr, "I32", gs) # Ok
    THEN is_expr_const_and_of_right_type(element_segment.expr, "I32", gs)
    ELSE IF \E i \in 1..Len(element_segment.function_indices) :
                ~max_func_index.some
                \/ element_segment.function_indices[i] > max_func_index.val
    THEN LET i == CHOOSE i \in 1..Len(element_segment.function_indices) :
                     /\ ~max_func_index.some
                        \/ element_segment.function_indices[i] > max_func_index.val
                     /\ \A j \in 1..(i - 1) :
                           /\ max_func_index.some
                           /\ element_segment.function_indices[j] <= max_func_index.val
         IN <<"InvalidFuncIndex", element_segment.function_indices[i]>>
    ELSE Ok

validate_data(data_segment, max_memory_index_, gs) ==
    IF ~max_memory_index_.some \/ data_segment.memory_index > max_memory_index_.val
    THEN <<"InvalidMemoryIndex", data_segment.memory_index>>
    ELSE is_expr_const_and_of_right_type(data_segment.expr, "I32", gs)

\* the loop of CodeValidator::validate, from the i-th instruction on
RECURSIVE validate_instructions(_, _, _, _)
validate_instructions(st, instructions, locals, i) ==
    IF i > Len(instructions) \/ st.err # Ok THEN st
    ELSE validate_instructions(validate_instruction(st, instructions[i], locals),
                               instructions, locals, i + 1)

\* CodeValidator::validate with the tables of the context
CodeValidator_validate(code, function_index) ==
    LET type_index == get_func_type_index(function_index)
    IN IF type_index.err # Ok THEN type_index.err
       ELSE validate_instructions(new(type_index.val), code.instructions,
                                  create_locals(type_index.val), 1).err

\* one turn of the loop of a section arm of Validator::validate: acc holds
\* the context, the result so far and the names of the ExportValidator;
\* function_index is the number of items before this one
validate_item(acc, kind, item, function_index) ==
    LET ctx == acc.context
    IN CASE kind = "Type" -> [acc EXCEPT !.context = add_function_type(ctx, item)]
         [] kind = "Import" ->
                IF validate_import_desc(item, get_max_type_index(ctx)) # Ok
                THEN [acc EXCEPT !.result = validate_import_desc(item, get_max_type_index(ctx))]
                ELSE [acc EXCEPT !.context = add_import_desc(ctx, item)]
         [] kind = "Function" ->
                IF validate_type_index(item, get_max_type_index(ctx)) # Ok
                THEN [acc EXCEPT !.result = validate_type_index(item, get_max_type_index(ctx))]
                ELSE [acc EXCEPT !.context = add_type_index(ctx, item)]
         [] kind = "Table" -> [acc EXCEPT !.context = add_table_type(ctx)]
         [] kind = "Memory" ->
                IF validate_memory_type(item) # Ok
                THEN [acc EXCEPT !.result = validate_memory_type(item)]
                ELSE [acc EXCEPT !.context = add_memory_type(ctx)]
         [] kind = "Global" ->
                IF validate_global_type(item, ctx.globals) # Ok
                THEN [acc EXCEPT !.result = validate_global_type(item, ctx.globals)]
                ELSE [acc EXCEPT !.context = add_global_type(ctx, item.global_type)]
         [] kind = "Export" ->
                [acc EXCEPT !.exported_names = validate_export(@, item, ctx).exported_names,
                            !.result = validate_export(acc.exported_names, item, ctx).result]
         [] kind = "Start" ->
                [acc EXCEPT !.result = validate_start(item, ctx.function_type_indices,
                                                      ctx.function_types)]
         [] kind = "Element" ->
                [acc EXCEPT !.result = validate_element(item, ctx.max_table_index,
                                           get_max_function_index(ctx), ctx.globals)]
         [] kind = "Code" ->
                \* the context is not changed by this arm: ctx is the context
                [acc EXCEPT !.result = CodeValidator_validate(item, function_index)]
         [] kind = "Data" ->
                [acc EXCEPT !.result = validate_data(item, get_max_memory_index(ctx),
                                                     ctx.globals)]

\* the for loop of a section arm, from the i-th item on; it ends at the first error
RECURSIVE validate_items(_, _, _, _)
validate_items(acc, kind, items, i) ==
    IF i > Len(items) \/ acc.result # Ok THEN acc
    ELSE validate_items(validate_item(acc, kind, items[i], i - 1), kind, items, i + 1)

\* Validator::validate on Chunk::Section: the context it leaves and its result
validate_section(ctx, section) ==
    CASE section.kind = "Custom" -> [context |-> ctx, result |-> Ok]
      [] section.kind = "Unknown" ->
            [context |-> ctx, result |-> <<"UnknownSection", section.items[1]>>]
      [] OTHER ->
            LET acc == validate_items([context |-> ctx, result |-> Ok, exported_names |-> {}],
                                      section.kind, section.items, 1)
            IN [context |-> acc.context, result |-> acc.result]

\* the module whose functions SpecCode checks: its sections before the Code section
ModuleSections ==
    << Section("Type", << FunctionType(<<>>, <<>>),
                          FunctionType(<<"I32">>, <<"I32">>),
                          FunctionType(<<>>, <<"I32">>),
                          FunctionType(<<"I32", "I64">>, <<>>) >>),
       Section("Import", << ImportGlobal(GlobalType("I32", FALSE)),
                            ImportGlobal(GlobalType("I64", TRUE)) >>),
       Section("Function", <<0, 1, 2>>),
       Section("Global",
               << GlobalSegment(GlobalType("I32", TRUE),
                                <<Instr("I32Const", Empty, 0), Instr("End", Empty, 0)>>),
                  GlobalSegment(GlobalType("I64", FALSE),
                                <<Instr("I64Const", Empty, 0), Instr("End", Empty, 0)>>) >>) >>

\* Validator::validate on the sections from the i-th on, while they are accepted
RECURSIVE validate_sections(_, _, _)
validate_sections(ctx, sections, i) ==
    IF i > Len(sections) THEN ctx
    ELSE validate_sections(validate_section(ctx, sections[i]).context, sections, i + 1)

ModuleContext == validate_sections(new_context, ModuleSections, 1)

(***************************************************************************)
(* SpecCode: CodeValidator::validate on one function of the module, the    *)
(* body's instructions arriving one at a time. The loop stops at the first *)
(* error.                                                                  *)
(***************************************************************************)
ControlInstructions ==
    {Instr("Unreachable", Empty, 0), Instr("Nop", Empty, 0),
     Instr("Block", Empty, 0), Instr("Block", ValueType("I32"), 0),
     Instr("Loop", Empty, 0), Instr("If", Empty, 0),
     Instr("Else", Empty, 0), Instr("End", Empty, 0),
     Instr("Branch", Empty, 0), Instr("BranchIf", Empty, 0), Instr("Return", Empty, 0)}
ParametricInstructions == {Instr("Drop", Empty, 0), Instr("Select", Empty, 0)}
VariableInstructions == {Instr("LocalGet", Empty, 0), Instr("LocalSet", Empty, 0)}
NumericInstructions ==
    {Instr("I32Const", Empty, 0), Instr("I64Const", Empty, 0),
     Instr("I32Add", Empty, 0), Instr("I64Eqz", Empty, 0)}

InitCodeValidator ==
    /\ InitParser
    /\ InitReader
    /\ pc = "api"
    /\ chunk = NoChunk
    /\ vresult = "NotCalled"
    /\ context = ModuleContext
    /\ prevContext = ModuleContext
    /\ imported = <<>>
    /\ \E function_index \in 0..(Len(function_type_indices) - 1) :
          func_type_index = get_func_type_index(function_index).val
    /\ body = <<>>
    /\ operand_stack = new(func_type_index).operand_stack
    /\ control_stack = new(func_type_index).control_stack
    /\ status = Ok
    /\ prev = [operand_stack |-> operand_stack, control_stack |-> control_stack, status |-> Ok]

\* one turn of the loop of CodeValidator::validate
\* validate_instruction(&instruction, ..)? on the next instruction of the body
ValidateNext(instruction) ==
    /\ status = Ok
    /\ LET st == [operand_stack |-> operand_stack, control_stack |-> control_stack,
                  err |-> Ok, popped |-> Unknown]
           s1 == validate_instruction(st, instruction, create_locals(func_type_index))
       IN /\ operand_stack' = s1.operand_stack
          /\ control_stack' = s1.control_stack
          /\ status' = s1.err
    /\ body' = Append(body, instruction)
    /\ prev' = [operand_stack |-> operand_stack, control_stack |-> control_stack,
                status |-> status]
    /\ UNCHANGED <<parserVars, validateVars, readerVars, func_type_index>>

ValidateInstruction(instruction) ==
    /\ Len(body) < MaxBody
    /\ ValidateNext(instruction)

ValidateControl == \E i \in ControlInstructions : ValidateInstruction(i)
ValidateParametric == \E i \in ParametricInstructions : ValidateInstruction(i)
ValidateVariable == \E i \in VariableInstructions : ValidateInstruction(i)
ValidateNumeric == \E i \in NumericInstructions : ValidateInstruction(i)

NextCode == ValidateControl \/ ValidateParametric \/ ValidateVariable \/ ValidateNumeric

SpecCode == InitCodeValidator /\ [][NextCode]_vars


(***************************************************************************)
(* SpecBranch: bodies that open frames of different kinds and types and    *)
(* then branch by a table.                                                 *)
(***************************************************************************)
FrameInstructions ==
    {Instr("Block", Empty, 0), Instr("Block", ValueType("I32"), 0),
     Instr("Loop", Empty, 0), Instr("Loop", TypeIndex(3), 0),
     Instr("I32Const", Empty, 0), Instr("Unreachable", Empty, 0)}

\* the label vectors of the br_table instructions: one or two labels, the
\* default last
BranchTables == {<<d>> : d \in 0..2} \cup {<<l, d>> : l \in 0..2, d \in 0..2}

ValidateFrame == \E i \in FrameInstructions : ValidateInstruction(i)

\* a br_table ends the body
ValidateBranchTable ==
    /\ Len(body) <= MaxBody
    /\ ~LastIs("BranchTable")
    /\ \E labels \in BranchTables : ValidateNext(BranchTable(labels))

NextBranch == ValidateFrame \/ ValidateBranchTable

SpecBranch == InitCodeValidator /\ [][NextBranch]_vars

(***************************************************************************)
(* SpecGlobal: CodeValidator::validate on bodies of global.get, global.set *)
(* and the instructions that fill and empty the operand stack. The globals *)
(* are those of the module: two imported ones, then two defined ones; the  *)
(* index 4 denotes no global.                                              *)
(***************************************************************************)
GlobalInstructions ==
    {Instr("GlobalGet", Empty, g) : g \in 0..4} \cup {Instr("GlobalSet", Empty, g) : g \in 0..4}

OperandInstructions ==
    {Instr("I32Const", Empty, 0), Instr("I64Const", Empty, 0), Instr("Drop", Empty, 0),
     Instr("Unreachable", Empty, 0)}

ValidateGlobal == \E i \in GlobalInstructions : ValidateInstruction(i)
ValidateOperand == \E i \in OperandInstructions : ValidateInstruction(i)

NextGlobal == ValidateGlobal \/ ValidateOperand

SpecGlobal == InitCodeValidator /\ [][NextGlobal]_vars

(***************************************************************************)
(* The specifications of the module validator: Validator::validate is      *)
(* called with one decoded section after another, in any order, and with   *)
(* Done. The context is kept within the bound MaxContext.                  *)
(***************************************************************************)
InitModule ==
    /\ InitParser
    /\ InitReader
    /\ pc = "api"
    /\ InitCode
    /\ chunk = NoChunk
    /\ vresult = <<"NotCalled">>
    /\ context = new_context
    /\ prevContext = new_context
    /\ imported = <<>>

ContextWithin(ctx) ==
    /\ Len(ctx.function_types) <= MaxContext
    /\ Len(ctx.globals) <= MaxContext
    /\ Len(ctx.function_type_indices) <= MaxContext
    /\ ctx.max_table_index.val < MaxContext
    /\ ctx.max_memory_index.val < MaxContext

\* the type indices of the function imports among the items, in their order
RECURSIVE FuncImportTypes(_)
FuncImportTypes(items) ==
    IF items = <<>> THEN <<>>
    ELSE (IF items[1].kind = "Func" THEN <<items[1].type_index>> ELSE <<>>)
         \o FuncImportTypes(Tail(items))

\* the function imports of the accepted sections, this one included
Imported(section, r) ==
    IF section.kind = "Import" /\ r = Ok
    THEN imported \o FuncImportTypes(section.items) ELSE imported

\* Validator::validate(&Chunk::Section(section))
ValidateSection(section) ==
    \E r \in {validate_section(context, section)} :
        /\ ContextWithin(r.context)
        /\ Len(Imported(section, r.result)) <= MaxContext
        /\ chunk' = ChunkSection(section)
        /\ vresult' = r.result
        /\ context' = r.context
        /\ prevContext' = context
        /\ imported' = Imported(section, r.result)
        /\ UNCHANGED <<parserVars, codeVars, readerVars>>

\* Validator::validate(&Chunk::Done)
ValidateDone ==
    /\ chunk' = ChunkDone
    /\ vresult' = Ok
    /\ prevContext' = context
    /\ UNCHANGED <<parserVars, codeVars, readerVars, context, imported>>

\* the last validate call was made with a section of this kind
Validated(kind) == chunk.kind = "Section" /\ chunk.section.kind = kind

I32ConstExpr == <<Instr("I32Const", Empty, 0), Instr("End", Empty, 0)>>
\* limits without a max: Option<u32>::None
NoMax(min) == Limits(U32Of(min), [some |-> FALSE, val |-> U32Of(0)])

(***************************************************************************)
(* SpecExport: Export sections, after sections that declare a function, a  *)
(* table, a memory and globals.                                            *)
(***************************************************************************)
ExportDeclarations ==
    {Section("Type", <<FunctionType(<<>>, <<>>)>>),
     Section("Function", <<0>>),
     Section("Table", <<NoMax(1)>>),
     Section("Memory", <<NoMax(1)>>),
     Section("Import", <<ImportGlobal(GlobalType("I32", FALSE))>>)}

ExportNames == {"x", "y"}
ExportDescriptors == {<<"Func", 0>>, <<"Func", 1>>, <<"Table", 0>>, <<"Memory", 0>>, <<"Global", 0>>}
Exports == {Export(n, d[1], d[2]) : n \in ExportNames, d \in ExportDescriptors}
ExportSections == {Section("Export", items) : items \in SeqsUpTo(Exports, 2)}

ValidateExportDeclaration == \E s \in ExportDeclarations : ValidateSection(s)
ValidateExportSection == \E s \in ExportSections : ValidateSection(s)

NextExport == ValidateExportDeclaration \/ ValidateExportSection \/ ValidateDone

SpecExport == InitModule /\ [][NextExport]_vars

(***************************************************************************)
(* SpecInit: Global, Element and Data sections with their initializer      *)
(* expressions, after sections that declare globals, a memory and a table. *)
(***************************************************************************)
GlobalTypes == {GlobalType("I32", FALSE), GlobalType("I32", TRUE)}

InitDeclarations ==
    {Section("Import", <<ImportGlobal(g)>>) : g \in GlobalTypes}
    \cup {Section("Import", <<ImportMemory(NoMax(1))>>),
          Section("Memory", <<NoMax(1)>>),
          Section("Table", <<NoMax(1)>>)}

GlobalGetExpr(g) == <<Instr("GlobalGet", Empty, g), Instr("End", Empty, 0)>>

\* initializers: constants, global.get, and expressions that are not constant,
\* not ended, or go on after their End
InitExprs ==
    {I32ConstExpr,
     <<Instr("I64Const", Empty, 0), Instr("End", Empty, 0)>>,
     <<Instr("F32Const", Empty, 0), Instr("End", Empty, 0)>>,
     <<Instr("Nop", Empty, 0), Instr("End", Empty, 0)>>,
     <<Instr("I32Const", Empty, 0)>>,
     <<Instr("I32Const", Empty, 0), Instr("I32Eqz", Empty, 0), Instr("End", Empty, 0)>>,
     <<Instr("I32Const", Empty, 0), Instr("End", Empty, 0), Instr("End", Empty, 0)>>,
     <<>>}
    \cup {GlobalGetExpr(g) : g \in 0..2}

GlobalSegments ==
    {GlobalSegment(g, expr) : g \in GlobalTypes, expr \in InitExprs}
GlobalSections ==
    {Section("Global", <<s>>) : s \in GlobalSegments}
    \cup {Section("Global", <<GlobalSegment(g, I32ConstExpr), GlobalSegment(h, GlobalGetExpr(0))>>) :
             g \in GlobalTypes, h \in GlobalTypes}

DataSections ==
    {Section("Data", <<DataSegment(m, expr)>>) : m \in 0..1, expr \in InitExprs}
ElementSections ==
    {Section("Element", <<ElementSegment(t, expr, fs)>>) :
        t \in 0..1, expr \in InitExprs, fs \in {<<>>, <<0>>}}

ValidateInitDeclaration == \E s \in InitDeclarations : ValidateSection(s)
ValidateGlobalSection == \E s \in GlobalSections : ValidateSection(s)
ValidateDataSection == \E s \in DataSections : ValidateSection(s)
ValidateElementSection == \E s \in ElementSections : ValidateSection(s)

NextInit ==
    \/ ValidateInitDeclaration
    \/ ValidateGlobalSection
    \/ ValidateDataSection
    \/ ValidateElementSection
    \/ ValidateDone

SpecInit == InitModule /\ [][NextInit]_vars

(***************************************************************************)
(* SpecIndex: the sections that fill the index spaces of functions, tables *)
(* and memories, and the sections that use the function index space.       *)
(***************************************************************************)
TypeSections ==
    {Section("Type", <<FunctionType(<<>>, <<>>)>>),
     Section("Type", <<FunctionType(<<>>, <<>>), FunctionType(<<"I32">>, <<>>)>>)}

IndexImports ==
    {ImportFunc(0), ImportFunc(1), ImportTable(NoMax(1)), ImportMemory(NoMax(1))}
IndexImportSections ==
    {Section("Import", items) : items \in SeqsUpTo(IndexImports, 2) \ {<<>>}}

FunctionSections ==
    {Section("Function", items) : items \in SeqsUpTo({0, 1}, 2) \ {<<>>}}

TableSections == {Section("Table", <<NoMax(1)>>), Section("Table", <<NoMax(1), NoMax(1)>>)}
MemorySections ==
    {Section("Memory", <<NoMax(1)>>), Section("Memory", <<NoMax(1), NoMax(1)>>),
     Section("Memory", <<NoMax(65537)>>)}

\* a body for any function, and one that reads the first parameter
Codes ==
    {Code(<<Instr("End", Empty, 0)>>),
     Code(<<Instr("LocalGet", Empty, 0), Instr("Drop", Empty, 0), Instr("End", Empty, 0)>>)}
CodeSections == {Section("Code", items) : items \in SeqsUpTo(Codes, 3)}

StartSections == {Section("Start", <<f>>) : f \in 0..2}

ValidateTypeSection == \E s \in TypeSections : ValidateSection(s)
ValidateImportSection == \E s \in IndexImportSections : ValidateSection(s)
ValidateFunctionSection == \E s \in FunctionSections : ValidateSection(s)
ValidateTableSection == \E s \in TableSections : ValidateSection(s)
ValidateMemorySection == \E s \in MemorySections : ValidateSection(s)
ValidateCodeSection == \E s \in CodeSections : ValidateSection(s)
ValidateStartSection == \E s \in StartSections : ValidateSection(s)

NextIndex ==
    \/ ValidateTypeSection
    \/ ValidateImportSection
    \/ ValidateFunctionSection
    \/ ValidateTableSection
    \/ ValidateMemorySection
    \/ ValidateCodeSection
    \/ ValidateStartSection
    \/ ValidateDone

SpecIndex == InitModule /\ [][NextIndex]_vars

(***************************************************************************)
(* SpecLeb: one LEB128 read of a BinaryReader made over the encoding of a  *)
(* number, or over raw bytes: continuation bytes up to the last            *)
(* permissible byte, with or without that byte.                            *)
(***************************************************************************)
Digits == {0, 1, 127}
U32Values ==
    {U32(hi, d0 + d1 * 128 + d2 * 16384 + d3 * 2097152) :
        hi \in 0..15, d0 \in Digits, d1 \in Digits, d2 \in Digits, d3 \in Digits}

\* the signed integers of a width whose bits from the k-th on all equal s,
\* the bits below being zeros, ones or alternating
Fills == {"zeros", "ones", "stripes"}
Pattern(width, k, fill, s) ==
    [i \in 1..width |->
        IF i > k THEN s
        ELSE CASE fill = "zeros" -> 0 [] fill = "ones" -> 1 [] fill = "stripes" -> i % 2]
S32Values == {Pattern(32, k, f, s) : k \in 0..32, f \in Fills, s \in {0, 1}}
S33Values == {Pattern(64, k, f, s) : k \in 0..32, f \in Fills, s \in {0, 1}}
S64Values == {Pattern(64, k, f, s) : k \in 0..64, f \in Fills, s \in {0, 1}}

ContinuationBytes == {128, 255}
RECURSIVE Continuations(_)
Continuations(n) ==
    IF n = 0 THEN {<<>>}
    ELSE {Append(s, b) : s \in Continuations(n - 1), b \in ContinuationBytes}
RawBuffers ==
    UNION {Continuations(n) : n \in 0..4}
    \cup {Append(s, b) : s \in Continuations(4), b \in 0..255}
    \cup {Append(s, b) : s \in {[i \in 1..9 |-> c] : c \in ContinuationBytes}, b \in 0..255}

\* BinaryReader::new(&encoded), as the round trip tests make it
Encoded(kind, n, encoded) ==
    /\ num = [kind |-> kind, val |-> n]
    /\ binary_reader = BinaryReader(encoded)

InitLeb ==
    /\ InitParser
    /\ pc = "api"
    /\ InitValidate
    /\ InitCode
    /\ \/ \E n \in U32Values : Encoded("u32", n, encode_u32(n))
       \/ \E n \in S32Values : Encoded("s32", n, encode_s32(n))
       \/ \E n \in S33Values : Encoded("s33", n, encode_s33(n))
       \/ \E n \in S64Values : Encoded("s64", n, encode_s64(n))
       \/ \E b \in RawBuffers : Encoded("raw", <<>>, b)
    /\ read = NoRead
    /\ InitIterator

\* a read operation on the new reader
Read(op, r) ==
    /\ read.op = "none"
    /\ read' = [op |-> op, res |-> r]
    /\ binary_reader' = [binary_reader EXCEPT !.position = r.pos]
    /\ UNCHANGED <<parserVars, validateVars, codeVars, num, iterVars>>

ReadLeb128U32 ==
    /\ num.kind \in {"u32", "raw"}
    /\ Read("read_leb128_u32",
            read_leb128_u32(binary_reader.buffer, binary_reader.position))
ReadLeb128S32 ==
    /\ num.kind \in {"s32", "raw"}
    /\ Read("read_leb128_s32",
            read_leb128_s32(binary_reader.buffer, binary_reader.position))
ReadLeb128S33 ==
    /\ num.kind \in {"s33", "raw"}
    /\ Read("read_leb128_s33",
            read_leb128_s33(binary_reader.buffer, binary_reader.position))
ReadLeb128S64 ==
    /\ num.kind \in {"s64", "raw"}
    /\ Read("read_leb128_s64",
            read_leb128_s64(binary_reader.buffer, binary_reader.position))

NextLeb == ReadLeb128U32 \/ ReadLeb128S32 \/ ReadLeb128S33 \/ ReadLeb128S64

SpecLeb == InitLeb /\ [][NextLeb]_vars

(***************************************************************************)
(* BinaryReader: the typed readers (readers/binary.rs), and the            *)
(* read_value_type of the BinaryReader of binary_reader.rs.                *)
(***************************************************************************)
read_value_type(buf, position) ==
    LET b == read_byte(buf, position)
    IN IF ~b.ok THEN b
       ELSE CASE b.val = 127 -> ROk("I32", b.pos)
              [] b.val = 126 -> ROk("I64", b.pos)
              [] b.val = 125 -> ROk("F32", b.pos)
              [] b.val = 124 -> ROk("F64", b.pos)
              [] OTHER -> RErr("InvalidValueTypeByte", position)

\* binary_reader.rs: 0xFE is i64, and the position stays past the byte
binary_reader_read_value_type(buf, position) ==
    LET b == read_byte(buf, position)
    IN IF ~b.ok THEN b
       ELSE CASE b.val = 127 -> ROk("I32", b.pos)
              [] b.val = 254 -> ROk("I64", b.pos)
              [] b.val = 125 -> ROk("F32", b.pos)
              [] b.val = 124 -> ROk("F64", b.pos)
              [] OTHER -> RErr("InvalidValueTypeByte", b.pos)

read_mutable_byte(buf, position) ==
    LET b == read_byte(buf, position)
    IN IF ~b.ok THEN b
       ELSE CASE b.val = 0 -> ROk(FALSE, b.pos)
              [] b.val = 1 -> ROk(TRUE, b.pos)
              [] OTHER -> RErr("InvalidMutableByte", b.pos)

read_global_type(buf, position) ==
    LET tp == read_value_type(buf, position)
    IN IF ~tp.ok THEN tp
       ELSE LET mutable == read_mutable_byte(buf, tp.pos)
            IN IF ~mutable.ok THEN mutable
               ELSE ROk(GlobalType(tp.val, mutable.val), mutable.pos)

read_limits(buf, position) ==
    LET b == read_byte(buf, position)
    IN IF ~b.ok THEN b
       ELSE IF b.val = 0
       THEN LET min == read_leb128_u32(buf, b.pos)
            IN IF ~min.ok THEN min ELSE ROk(Limits(min.val, None), min.pos)
       ELSE IF b.val = 1
       THEN LET min == read_leb128_u32(buf, b.pos)
            IN IF ~min.ok THEN min
               ELSE LET max == read_leb128_u32(buf, min.pos)
                    IN IF ~max.ok THEN max
                       ELSE ROk(Limits(min.val, Some(max.val)), max.pos)
       ELSE RErr("InvalidLimitsByte", b.pos)

\* the loop of create_instruction_reader: read bytes up to the first 0x0B
RECURSIVE skip_to_end_byte(_, _)
skip_to_end_byte(buf, position) ==
    LET b == read_byte(buf, position)
    IN IF ~b.ok THEN b
       ELSE IF b.val = 11 THEN b
       ELSE skip_to_end_byte(buf, b.pos)

\* the buffer of the InstructionReader made, and the position after it
create_instruction_reader(buf, position) ==
    LET before == position
        after == skip_to_end_byte(buf, position)
    IN IF ~after.ok THEN after
       ELSE create_buffer_slice(buf, before, after.pos)

(***************************************************************************)
(* SpecReader: any sequence of read operations on a BinaryReader made over *)
(* a short buffer.                                                         *)
(***************************************************************************)
ReaderBytes == {0, 1, 2, 11, 124, 125, 126, 127, 128, 254}
WordBuffers == {<<1, 0, 0, 0>>, <<0, 97, 115, 109, 127>>}
ReaderBuffers == SeqsUpTo(ReaderBytes, MaxBuffer) \cup WordBuffers

InitReaderOver ==
    /\ InitParser
    /\ pc = "api"
    /\ InitValidate
    /\ InitCode
    /\ \E b \in ReaderBuffers : binary_reader = BinaryReader(b)
    /\ num = NoNum
    /\ read = NoRead
    /\ InitIterator

\* a read operation: what it returned, from which position, and the position
\* it left the reader at
ReaderRead(op, r) ==
    /\ read' = [op |-> op, res |-> r, from |-> binary_reader.position]
    /\ binary_reader' = [binary_reader EXCEPT !.position = r.pos]
    /\ UNCHANGED <<parserVars, validateVars, codeVars, num, iterVars>>

ReadBytes ==
    \E n \in 0..2 :
        ReaderRead("read_bytes", read_bytes(binary_reader.buffer, binary_reader.position, n))
ReadByte ==
    ReaderRead("read_byte", read_byte(binary_reader.buffer, binary_reader.position))
ReadDoubleWord ==
    ReaderRead("read_double_word",
               read_double_word(binary_reader.buffer, binary_reader.position))
ReadU32 ==
    ReaderRead("read_leb128_u32",
               read_leb128_u32(binary_reader.buffer, binary_reader.position))
ReadBytesVec ==
    ReaderRead("read_bytes_vec",
               read_bytes_vec(binary_reader.buffer, binary_reader.position))
ReadString ==
    ReaderRead("read_string", read_string(binary_reader.buffer, binary_reader.position))
ReadValueType ==
    ReaderRead("read_value_type",
               read_value_type(binary_reader.buffer, binary_reader.position))
ReadValueTypeOfBinaryReaderRs ==
    ReaderRead("binary_reader::read_value_type",
               binary_reader_read_value_type(binary_reader.buffer, binary_reader.position))
ReadGlobalType ==
    ReaderRead("read_global_type",
               read_global_type(binary_reader.buffer, binary_reader.position))
ReadLimits ==
    ReaderRead("read_limits", read_limits(binary_reader.buffer, binary_reader.position))
CreateInstructionReader ==
    ReaderRead("create_instruction_reader",
               create_instruction_reader(binary_reader.buffer, binary_reader.position))

NextReader ==
    \/ ReadBytes
    \/ ReadByte
    \/ ReadDoubleWord
    \/ ReadU32
    \/ ReadBytesVec
    \/ ReadString
    \/ ReadValueType
    \/ ReadValueTypeOfBinaryReaderRs
    \/ ReadGlobalType
    \/ ReadLimits
    \/ CreateInstructionReader

SpecReader == InitReaderOver /\ [][NextReader]_vars

(***************************************************************************)
(* InstructionReader::read (readers/instruction.rs), for the opcodes of    *)
(* the expressions below, and the section readers of the items that hold   *)
(* an initializer (readers/section/global.rs, data.rs, element.rs).        *)
(***************************************************************************)
\* the value of the bits from..to of a signed integer, as an unsigned number
RECURSIVE bits_value(_, _, _)
bits_value(bits, from, to) ==
    IF from > to THEN 0 ELSE bits[from] + 2 * bits_value(bits, from + 1, to)

\* `index as u32` of an i64
as_u32(bits) == U32(bits_value(bits, 29, 32), bits_value(bits, 1, 28))

\* index < 0 || index > u32::max_value() as i64
out_of_u32(bits) == \E i \in 33..S33.width : bits[i] = 1

read_block_type(buf, position) ==
    LET val_type == read_value_type(buf, position)
    IN IF val_type.ok THEN ROk(ValueType(val_type.val), val_type.pos)
       ELSE LET b == read_byte(buf, position)
            IN IF ~b.ok THEN b
               ELSE IF b.val = 64 THEN ROk(Empty, b.pos)
               ELSE LET index == read_leb128_s33(buf, b.pos)
                    IN IF ~index.ok THEN index
                       ELSE IF out_of_u32(index.val)
                            THEN RErr("InvalidBlockTypeIndex", index.pos)
                       ELSE ROk(TypeIndex(AsUsize(as_u32(index.val))), index.pos)

\* the arms 0x02, 0x03, 0x04
read_block(op, buf, position) ==
    LET block_type == read_block_type(buf, position)
    IN IF ~block_type.ok THEN block_type
       ELSE ROk(Instr(op, block_type.val, 0), block_type.pos)

\* the arms 0x3F, 0x40
read_memory_size_byte(op, buf, position) ==
    LET b == read_byte(buf, position)
    IN IF b.ok /\ b.val = 0 THEN ROk(Instr(op, Empty, 0), b.pos)
       ELSE RErr("InvalidMemorySizeByte", b.pos)

InstructionReader_read(buf, position) ==
    LET b == read_byte(buf, position)
    IN IF ~b.ok THEN b
       ELSE CASE b.val = 0 -> ROk(Instr("Unreachable", Empty, 0), b.pos)
              [] b.val = 1 -> ROk(Instr("Nop", Empty, 0), b.pos)
              [] b.val = 2 -> read_block("Block", buf, b.pos)
              [] b.val = 3 -> read_block("Loop", buf, b.pos)
              [] b.val = 4 -> read_block("If", buf, b.pos)
              [] b.val = 5 -> ROk(Instr("Else", Empty, 0), b.pos)
              [] b.val = 11 -> ROk(Instr("End", Empty, 0), b.pos)
              [] b.val = 17 ->
                    LET type_index == read_leb128_u32(buf, b.pos)
                    IN IF ~type_index.ok THEN type_index
                       ELSE ROk(Instr("CallIndirect", Empty, AsUsize(type_index.val)),
                                type_index.pos)
              [] b.val = 26 -> ROk(Instr("Drop", Empty, 0), b.pos)
              [] b.val = 63 -> read_memory_size_byte("MemorySize", buf, b.pos)
              [] b.val = 64 -> read_memory_size_byte("MemoryGrow", buf, b.pos)
              [] b.val = 35 ->
                    LET global_index == read_leb128_u32(buf, b.pos)
                    IN IF ~global_index.ok THEN global_index
                       ELSE ROk(Instr("GlobalGet", Empty, AsUsize(global_index.val)),
                                global_index.pos)
              [] b.val = 65 ->
                    LET val == read_leb128_s32(buf, b.pos)
                    IN IF ~val.ok THEN val ELSE ROk(Instr("I32Const", Empty, 0), val.pos)
              [] b.val = 66 ->
                    LET val == read_leb128_s64(buf, b.pos)
                    IN IF ~val.ok THEN val ELSE ROk(Instr("I64Const", Empty, 0), val.pos)
              [] b.val = 67 ->
                    LET val == read_bytes(buf, b.pos, 4)
                    IN IF ~val.ok THEN val ELSE ROk(Instr("F32Const", Empty, 0), val.pos)
              [] b.val = 69 -> ROk(Instr("I32Eqz", Empty, 0), b.pos)
              [] OTHER -> RErr("InvalidInstruction", b.pos)

\* the instructions an InstructionReader over buf yields before a read fails
RECURSIVE instructions_from(_, _)
instructions_from(buf, position) ==
    LET instruction == InstructionReader_read(buf, position)
    IN IF ~instruction.ok THEN <<>>
       ELSE <<instruction.val>> \o instructions_from(buf, instruction.pos)

\* a segment read: the fields read before the initializer, the buffer of its
\* instruction reader, and the position after create_instruction_reader
SegmentRead(fields, instruction_reader, position) ==
    ROk([fields |-> fields, instruction_reader |-> instruction_reader.val,
         after_expr |-> instruction_reader.pos], position)

read_global_segment(buf, position) ==
    LET global_type == read_global_type(buf, position)
    IN IF ~global_type.ok THEN global_type
       ELSE LET instruction_reader == create_instruction_reader(buf, global_type.pos)
            IN IF ~instruction_reader.ok THEN instruction_reader
               ELSE SegmentRead(global_type.val, instruction_reader, instruction_reader.pos)

read_data_segment(buf, position) ==
    LET memory_index == read_leb128_u32(buf, position)
    IN IF ~memory_index.ok THEN memory_index
       ELSE LET instruction_reader == create_instruction_reader(buf, memory_index.pos)
            IN IF ~instruction_reader.ok THEN instruction_reader
               ELSE LET bytes == read_bytes_vec(buf, instruction_reader.pos)
                    IN IF ~bytes.ok THEN bytes
                       ELSE SegmentRead(memory_index.val, instruction_reader, bytes.pos)

RECURSIVE read_func_indices(_, _, _)
read_func_indices(buf, position, len) ==
    IF len = 0 THEN ROk(<<>>, position)
    ELSE LET func_index == read_leb128_u32(buf, position)
         IN IF ~func_index.ok THEN func_index
            ELSE read_func_indices(buf, func_index.pos, len - 1)

read_element_segment(buf, position) ==
    LET table_index == read_leb128_u32(buf, position)
    IN IF ~table_index.ok THEN table_index
       ELSE LET instruction_reader == create_instruction_reader(buf, table_index.pos)
            IN IF ~instruction_reader.ok THEN instruction_reader
               ELSE LET len == read_leb128_u32(buf, instruction_reader.pos)
                    IN IF ~len.ok THEN len
                       ELSE LET func_indices ==
                                    read_func_indices(buf, len.pos, AsUsize(len.val))
                            IN IF ~func_indices.ok THEN func_indices
                               ELSE SegmentRead(table_index.val, instruction_reader,
                                                func_indices.pos)

(***************************************************************************)
(* SpecSegment: a section reader's BinaryReader stands at an item whose    *)
(* initializer is a constant followed by End; the item is read, and a      *)
(* global that was read is validated.                                      *)
(***************************************************************************)
\* i32 and i64 constants as their bits
ConstBits(width, n) == [i \in 1..width |-> IF i > 30 THEN 0 ELSE (n \div 2 ^ (i - 1)) % 2]
I32Consts == {ConstBits(32, n) : n \in {0, 11, 12, 139, 1419}} \cup {Pattern(32, 0, "zeros", 1)}
I64Consts == {ConstBits(64, n) : n \in {0, 11}}
F32Consts == {<<0, 0, 0, 0>>, <<0, 0, 11, 65>>}

\* the bytes of `t.const c; end`, with the type of the constant
ConstExprs ==
    {[var_type |-> "I32", bytes |-> <<65>> \o encode_s32(c) \o <<11>>] : c \in I32Consts}
    \cup {[var_type |-> "I64", bytes |-> <<66>> \o encode_s64(c) \o <<11>>] : c \in I64Consts}
    \cup {[var_type |-> "F32", bytes |-> <<67>> \o c \o <<11>>] : c \in F32Consts}

ValueTypeByte(t) == CASE t = "I32" -> 127 [] t = "I64" -> 126 [] t = "F32" -> 125 [] t = "F64" -> 124

\* what precedes the initializer in an item and what follows it
SegmentItems ==
    {[kind |-> "global", before |-> <<ValueTypeByte(t), m>>, after |-> a] :
        t \in {"I32", "I64", "F32"}, m \in {0, 1}, a \in {<<>>, <<127, 0, 65, 0, 11>>}}
    \cup {[kind |-> "data", before |-> <<0>>, after |-> a] : a \in {<<0>>, <<2, 11, 7>>}}
    \cup {[kind |-> "element", before |-> <<0>>, after |-> a] : a \in {<<0>>, <<2, 0, 1>>}}

InitSegment ==
    /\ InitParser
    /\ pc = "api"
    /\ InitCode
    /\ chunk = NoChunk
    /\ vresult = <<"NotCalled">>
    /\ context = new_context
    /\ prevContext = new_context
    /\ imported = <<>>
    /\ \E item \in SegmentItems, expr \in ConstExprs :
          /\ num = [kind |-> item.kind, val |-> expr.bytes, var_type |-> expr.var_type,
                    before |-> Len(item.before)]
          /\ binary_reader = BinaryReader(item.before \o expr.bytes \o item.after)
    /\ read = NoRead
    /\ InitIterator

ReadSegment(kind, op, r) ==
    /\ num.kind = kind
    /\ read.op = "none"
    /\ read' = [op |-> op, res |-> r]
    /\ binary_reader' = [binary_reader EXCEPT !.position = r.pos]
    /\ UNCHANGED <<parserVars, validateVars, codeVars, num, iterVars>>

ReadGlobalSegment ==
    ReadSegment("global", "read_global_segment",
                read_global_segment(binary_reader.buffer, binary_reader.position))
ReadDataSegment ==
    ReadSegment("data", "read_data_segment",
                read_data_segment(binary_reader.buffer, binary_reader.position))
ReadElementSegment ==
    ReadSegment("element", "read_element_segment",
                read_element_segment(binary_reader.buffer, binary_reader.position))

\* the Global arm of Validator::validate on the global that was read
ValidateGlobalSegment ==
    /\ read.op = "read_global_segment"
    /\ read.res.ok
    /\ vresult = <<"NotCalled">>
    /\ \E global \in {GlobalSegment(read.res.val.fields,
                                    instructions_from(read.res.val.instruction_reader, 0))} :
          \E r \in {validate_global_type(global, context.globals)} :
              /\ vresult' = r
              /\ context' = IF r = Ok THEN add_global_type(context, global.global_type)
                            ELSE context
              /\ prevContext' = context
    /\ UNCHANGED <<parserVars, codeVars, readerVars, chunk, imported>>

NextSegment ==
    \/ ReadGlobalSegment
    \/ ReadDataSegment
    \/ ReadElementSegment
    \/ ValidateGlobalSegment

SpecSegment == InitSegment /\ [][NextSegment]_vars

(***************************************************************************)
(* SpecLimits: tables and memories with limits in and out of range,        *)
(* imported and defined, in sections accepted or rejected part of the way. *)
(***************************************************************************)
LimitsValues ==
    {NoMax(1), Limits(U32Of(1), Some(U32Of(1))), Limits(U32Of(2), Some(U32Of(1))),
     Limits(U32Of(65536), Some(U32Of(65536))), NoMax(65537),
     Limits(U32Of(1), Some(U32Of(65537)))}

LimitsTableSections ==
    {Section("Table", <<l>>) : l \in LimitsValues}
    \cup {Section("Table", <<NoMax(1), Limits(U32Of(2), Some(U32Of(1)))>>)}
LimitsMemorySections ==
    {Section("Memory", <<l>>) : l \in LimitsValues}
    \cup {Section("Memory", <<NoMax(1), l>>) : l \in LimitsValues}
LimitsImportSections ==
    {Section("Import", <<ImportTable(l)>>) : l \in LimitsValues}
    \cup {Section("Import", <<ImportMemory(l)>>) : l \in LimitsValues}
    \cup {Section("Import", <<ImportMemory(NoMax(1)), ImportMemory(l)>>) : l \in LimitsValues}
    \cup {Section("Import", <<ImportTable(NoMax(1)), ImportTable(l)>>) : l \in LimitsValues}
    \cup {Section("Import", <<ImportFunc(0), ImportTable(NoMax(1))>>),
          Section("Import", <<ImportTable(NoMax(1)), ImportFunc(1), ImportMemory(NoMax(1))>>)}

ValidateLimitsTable == \E s \in LimitsTableSections : ValidateSection(s)
ValidateLimitsMemory == \E s \in LimitsMemorySections : ValidateSection(s)
ValidateLimitsImport == \E s \in LimitsImportSections : ValidateSection(s)

NextLimits ==
    \/ ValidateLimitsTable
    \/ ValidateLimitsMemory
    \/ ValidateLimitsImport
    \/ ValidateDone

SpecLimits == InitModule /\ [][NextLimits]_vars

(***************************************************************************)
(* SpecContext: validate calls on one Validator with sections of every     *)
(* kind that changes the context, accepted or rejected part of the way,    *)
(* and with sections that only read it.                                    *)
(***************************************************************************)
ContextSections ==
    {Section("Type", <<FunctionType(<<>>, <<>>)>>),
     Section("Function", <<0>>),
     Section("Function", <<0, 1>>),
     Section("Global", <<GlobalSegment(GlobalType("I32", FALSE), I32ConstExpr)>>),
     Section("Global", <<GlobalSegment(GlobalType("I32", TRUE), I32ConstExpr)>>),
     Section("Global", <<GlobalSegment(GlobalType("I32", FALSE), I32ConstExpr),
                         GlobalSegment(GlobalType("I32", TRUE), <<>>)>>),
     Section("Table", <<NoMax(1)>>),
     Section("Memory", <<NoMax(1)>>),
     Section("Memory", <<NoMax(1), NoMax(65537)>>),
     Section("Import", <<ImportTable(NoMax(1)), ImportMemory(NoMax(1))>>),
     Section("Import", <<ImportGlobal(GlobalType("I64", FALSE)), ImportFunc(1)>>)}
ReadingSections ==
    {Section("Custom", <<>>), Section("Start", <<0>>),
     Section("Export", <<Export("x", "Memory", 0)>>),
     Section("Data", <<DataSegment(0, I32ConstExpr)>>),
     Section("Element", <<ElementSegment(0, I32ConstExpr, <<0>>)>>),
     Section("Code", <<Code(<<Instr("End", Empty, 0)>>)>>)}

ValidateContextSection == \E s \in ContextSections : ValidateSection(s)
ValidateReadingSection == \E s \in ReadingSections : ValidateSection(s)

NextContext ==
    \/ ValidateContextSection
    \/ ValidateReadingSection
    \/ ValidateDone

SpecContext == InitModule /\ [][NextContext]_vars

(***************************************************************************)
(* SpecBlock: bodies that fill the operand stack and then enter a block,   *)
(* a loop or an if whose BlockType is a type index. Type 1 is              *)
(* (i32) -> (i32), type 3 is (i32, i64) -> (), the index 4 denotes no      *)
(* type.                                                                   *)
(***************************************************************************)
BlockOperandInstructions ==
    {Instr("I32Const", Empty, 0), Instr("I64Const", Empty, 0), Instr("Unreachable", Empty, 0)}

BlockInstructions ==
    {Instr(op, block_type, 0) :
        op \in {"Block", "Loop", "If"},
        block_type \in {Empty, TypeIndex(1), TypeIndex(3), TypeIndex(4)}}

ValidateBlockOperand == \E i \in BlockOperandInstructions : ValidateInstruction(i)

\* the block form ends the body
ValidateBlock ==
    /\ Len(body) <= MaxBody
    /\ ~(LastIs("Block") \/ LastIs("Loop") \/ LastIs("If"))
    /\ \E i \in BlockInstructions : ValidateNext(i)

NextBlock == ValidateBlockOperand \/ ValidateBlock

SpecBlock == InitCodeValidator /\ [][NextBlock]_vars

(***************************************************************************)
(* SpecInstruction: InstructionReader::read, again and again, on a reader  *)
(* over a short buffer of opcodes and immediates.                          *)
(***************************************************************************)
InstructionBytes == {0, 2, 5, 11, 17, 63, 64, 127, 128}
InstructionBuffers == SeqsUpTo(InstructionBytes, MaxBuffer)

InitInstruction ==
    /\ InitParser
    /\ pc = "api"
    /\ InitValidate
    /\ InitCode
    /\ \E b \in InstructionBuffers : binary_reader = BinaryReader(b)
    /\ num = NoNum
    /\ read = NoRead
    /\ InitIterator

ReadInstruction ==
    ReaderRead("InstructionReader::read",
               InstructionReader_read(binary_reader.buffer, binary_reader.position))

NextInstruction == ReadInstruction

SpecInstruction == InitInstruction /\ [][NextInstruction]_vars

(***************************************************************************)
(* SpecClient: a client of the library that feeds the parser from a stream.*)
(* It calls Parser::parse with what it has buffered; after UnexpectedEof   *)
(* it buffers more bytes and calls again; it hands a section that has no   *)
(* items to validate (a custom section, a section of unknown id) to        *)
(* Validator::validate.                                                    *)
(***************************************************************************)
ClientSectionIds == {0, 12, 129}
ClientBodies == SeqsUpTo({0, 1}, MaxSectionLen - 2)
ClientSections ==
    {<<id, n>> \o bytes : id \in ClientSectionIds, n \in 0..(MaxSectionLen - 2),
                          bytes \in ClientBodies}
ClientBuffers ==
    UNION {Prefixes(b) : b \in {WASM_MAGIC_NUMBER \o <<1, 0, 0, 0>>} \cup ClientSections}

IsUnexpectedEof(res) == ~res.ok /\ res.err[Len(res.err)] = "UnexpectedEof"

ClientCall(b, r, retry) ==
    /\ Len(emitted) < MaxCalls
    /\ location' = r.location
    /\ result' = r.res
    /\ emitted' = IF r.res.ok THEN Append(emitted, r.res.chunk.kind) ELSE emitted
    /\ buffer' = b
    /\ prevLocation' = location
    /\ pc' = IF IsUnexpectedEof(r.res) THEN "failed" ELSE IF retry THEN "retried" ELSE "api"
    /\ UNCHANGED <<validateVars, codeVars, readerVars>>

\* parser.parse(&buffer)
ClientParse ==
    /\ pc \in {"api", "retried"}
    /\ \E b \in ClientBuffers : ClientCall(b, parse(location, b), FALSE)

\* after UnexpectedEof: more bytes are buffered behind those the failed call
\* was made with, then parser.parse(&buffer)
ClientRetry ==
    /\ pc = "failed"
    /\ \E b \in ClientBuffers :
          /\ Len(b) > Len(buffer)
          /\ SubSeq(b, 1, Len(buffer)) = buffer
          /\ ClientCall(b, parse(location, b), TRUE)

\* validator.validate(&chunk) on the section the last call returned
ClientValidate ==
    /\ result.ok
    /\ result.chunk.kind = "Section"
    /\ result.chunk.section.kind \in {"Custom", "Unknown"}
    /\ \E r \in {validate_section(context, Section(result.chunk.section.kind,
                                                   <<result.chunk.section.id>>))} :
          /\ chunk' = result.chunk
          /\ vresult' = r.result
          /\ context' = r.context
          /\ prevContext' = context
    /\ UNCHANGED <<parserVars, codeVars, readerVars, imported>>

NextClient == ClientParse \/ ClientRetry \/ ClientValidate

SpecClient == Init /\ [][NextClient]_vars

(***************************************************************************)
(* SpecMemory: bodies that fill the operand stack and then end with a      *)
(* memory instruction, in a module without a memory and in one with a      *)
(* memory.                                                                 *)
(***************************************************************************)
Alignments == {U32(0, 0), U32(0, 1), U32(0, 2), U32(0, 3), U32(0, 4), U32(8, 0), u32_max_value}
MemoryInstructions ==
    {MemoryInstr(op, MemoryArgument(alignment, U32(0, 0))) :
        op \in DOMAIN LoadArms \cup DOMAIN StoreArms, alignment \in Alignments}
    \cup {Instr("MemorySize", Empty, 0), Instr("MemoryGrow", Empty, 0)}
MemoryOperandInstructions ==
    {Instr("I32Const", Empty, 0), Instr("I64Const", Empty, 0),
     Instr("F32Const", Empty, 0), Instr("F64Const", Empty, 0)}

InitMemoryValidator ==
    /\ InitParser
    /\ InitReader
    /\ pc = "api"
    /\ chunk = NoChunk
    /\ vresult = "NotCalled"
    /\ context \in {ModuleContext, add_memory_type(ModuleContext)}
    /\ prevContext = context
    /\ imported = <<>>
    /\ func_type_index = 0
    /\ body = <<>>
    /\ operand_stack = new(func_type_index).operand_stack
    /\ control_stack = new(func_type_index).control_stack
    /\ status = Ok
    /\ prev = [operand_stack |-> operand_stack, control_stack |-> control_stack, status |-> Ok]

ValidateMemoryOperand == \E i \in MemoryOperandInstructions : ValidateInstruction(i)

\* the memory instruction ends the body
ValidateMemory ==
    /\ Len(body) <= MaxBody
    /\ \A i \in 1..Len(body) : body[i] \in MemoryOperandInstructions
    /\ \E i \in MemoryInstructions : ValidateNext(i)

NextMemory == ValidateMemoryOperand \/ ValidateMemory

SpecMemory == InitMemoryValidator /\ [][NextMemory]_vars

(***************************************************************************)
(* The sub-readers that are iterated: BranchTableReader                    *)
(* (readers/branch_table.rs), FunctionSectionReader                        *)
(* (readers/section/function.rs) and the iterators over them               *)
(* (BranchTableLabelsIterator, SectionItemIterator of readers/common.rs).  *)
(* A sub-reader is its buffer, its position and the count it read when it  *)
(* was made.                                                               *)
(***************************************************************************)
\* the loop of skip_br_table and the read after it: n more u32 are read
RECURSIVE skip_labels(_, _, _)
skip_labels(buf, position, n) ==
    IF n = 0 THEN ROk(0, position)
    ELSE LET label == read_leb128_u32(buf, position)
         IN IF ~label.ok THEN label ELSE skip_labels(buf, label.pos, n - 1)

\* BranchTableReader::skip_br_table: (start, end) are position and .pos
skip_br_table(buf, position) ==
    LET num_labels == read_leb128_u32(buf, position)
    IN IF ~num_labels.ok THEN num_labels
       ELSE skip_labels(buf, num_labels.pos, AsUsize(num_labels.val) + 1)

\* BranchTableReader::new, FunctionSectionReader::new
sub_reader_new(buf) ==
    LET count == read_leb128_u32(buf, 0)
    IN IF ~count.ok THEN count
       ELSE ROk(SubReader(buf, count.pos, AsUsize(count.val)), count.pos)

\* binary_reader.rs: the reader is made over the whole buffer and the cursor
\* stays where it was
binary_reader_create_branch_table_reader(buf, position) ==
    LET reader == sub_reader_new(buf)
    IN IF ~reader.ok THEN RErr(reader.err, position) ELSE ROk(reader.val, position)

\* readers/binary.rs: the reader is made over &self.buffer[start..end]
create_branch_table_reader(buf, position) ==
    LET end == skip_br_table(buf, position)
    IN IF ~end.ok THEN end
       ELSE LET reader == sub_reader_new(SubSeq(buf, position + 1, end.pos))
            IN IF ~reader.ok THEN RErr(reader.err, end.pos) ELSE ROk(reader.val, end.pos)

\* what next() returns
ItemOk(val) == [kind |-> "Some(Ok)", val |-> val, err |-> "None"]
ItemErr(err) == [kind |-> "Some(Err)", val |-> U32(0, 0), err |-> err]
ItemNone == [kind |-> "None", val |-> U32(0, 0), err |-> "None"]

\* BranchTableLabelsIterator::new, SectionItemIterator::new
iterator_new(reader, remaining) == [reader |-> reader, error |-> FALSE, remaining |-> remaining]

\* a faulty variant: an error does not end the iteration
iterator_next_after_error(it) ==
    IF it.remaining = 0 THEN [iterator |-> it, item |-> ItemNone]
    ELSE LET item_read == read_leb128_u32(it.reader.buffer, it.reader.position)
         IN [iterator |-> [reader |-> [it.reader EXCEPT !.position = item_read.pos],
                           error |-> ~item_read.ok,
                           remaining |-> it.remaining - 1],
             item |-> IF item_read.ok THEN ItemOk(item_read.val) ELSE ItemErr(item_read.err)]

\* Iterator::next of both iterators; the reader's read() is read_leb128_u32
iterator_next(it) ==
    IF it.remaining = 0 \/ it.error THEN [iterator |-> it, item |-> ItemNone]
    ELSE LET item_read == read_leb128_u32(it.reader.buffer, it.reader.position)
         IN [iterator |-> [reader |-> [it.reader EXCEPT !.position = item_read.pos],
                           error |-> ~item_read.ok,
                           remaining |-> it.remaining - 1],
             item |-> IF item_read.ok THEN ItemOk(item_read.val) ELSE ItemErr(item_read.err)]

(***************************************************************************)
(* SpecIterator: over a short buffer, a br_table's reader is made by the   *)
(* instruction reader's BinaryReader, or the buffer is the body of a       *)
(* Function section and its reader is made; then clones of the reader are  *)
(* iterated, each next() a step.                                           *)
(***************************************************************************)
IteratorBytes == {0, 1, 2, 128}
IteratorBuffers == SeqsUpTo(IteratorBytes, MaxBuffer + 1)

InitIterated ==
    /\ InitParser
    /\ pc = "api"
    /\ InitValidate
    /\ InitCode
    /\ \E b \in IteratorBuffers : binary_reader = BinaryReader(b)
    /\ num = NoNum
    /\ read = NoRead
    /\ InitIterator

\* self.reader.read_byte()? of InstructionReader::read: the opcode
ReadOpcode ==
    /\ read = NoRead
    /\ ReaderRead("read_byte", read_byte(binary_reader.buffer, binary_reader.position))

\* self.reader.create_branch_table_reader()? of the arm 0x0E
CreateBranchTableReader ==
    /\ read.op \in {"none", "read_byte"}
    /\ \E r \in {create_branch_table_reader(binary_reader.buffer, binary_reader.position)} :
          /\ read' = [op |-> "create_branch_table_reader", res |-> r,
                      from |-> binary_reader.position]
          /\ binary_reader' = [binary_reader EXCEPT !.position = r.pos]
    /\ UNCHANGED <<parserVars, validateVars, codeVars, num, iterVars>>

\* FunctionSectionReader::new(buffer); binary_reader is the reader's own
NewFunctionSectionReader ==
    /\ read = NoRead
    /\ \E r \in {sub_reader_new(binary_reader.buffer)} :
          /\ read' = [op |-> "FunctionSectionReader::new", res |-> r,
                      from |-> binary_reader.position]
          /\ binary_reader' = [binary_reader EXCEPT !.position = r.pos]
    /\ UNCHANGED <<parserVars, validateVars, codeVars, num, iterVars>>

\* branch_table_reader.clone().into_iter(): get_num_labels() is num_labels + 1
BranchTableIntoIter ==
    /\ read.op = "create_branch_table_reader"
    /\ read.res.ok
    /\ iterator' = iterator_new(read.res.val, read.res.val.count + 1)
    /\ yielded' = <<>>
    /\ UNCHANGED <<parserVars, validateVars, codeVars, binary_reader, num, read>>

\* `for item in reader.clone()`
SectionIntoIter ==
    /\ read.op = "FunctionSectionReader::new"
    /\ read.res.ok
    /\ iterator' = iterator_new(read.res.val, read.res.val.count)
    /\ yielded' = <<>>
    /\ UNCHANGED <<parserVars, validateVars, codeVars, binary_reader, num, read>>

\* next() on the iterator; followed for two calls past the buffer's length
IteratorNext ==
    /\ iterator # NoIterator
    /\ Len(yielded) < Len(binary_reader.buffer) + 2
    /\ \E r \in {iterator_next(iterator)} :
          /\ iterator' = r.iterator
          /\ yielded' = Append(yielded, r.item)
    /\ UNCHANGED <<parserVars, validateVars, codeVars, binary_reader, num, read>>

NextIterator ==
    \/ ReadOpcode
    \/ CreateBranchTableReader
    \/ NewFunctionSectionReader
    \/ BranchTableIntoIter
    \/ SectionIntoIter
    \/ IteratorNext

SpecIterator == InitIterated /\ [][NextIterator]_vars

(***************************************************************************)
(* Properties of the parser.                                               *)
(***************************************************************************)
Rank(loc) ==
    CASE loc = "ModuleHeader" -> 0
      [] loc = "Section" -> 1
      [] loc = "End" -> 2

\* the last parse call was made, and made after a Done had been returned
CalledAfterDone ==
    \E i \in 1..(Len(emitted) - (IF result.ok THEN 1 ELSE 0)) : emitted[i] = "Done"

Called == result.err # <<"NotCalled">>

\* C1: the successful results of the parse calls are one Preamble first, then
\* only Sections, then only Dones; the location only moves
\* ModuleHeader -> Section -> End.
C1_ChunksInOrder ==
    /\ \A i \in 1..Len(emitted) :
          /\ (emitted[i] = "Preamble") <=> (i = 1)
          /\ emitted[i] \in {"Preamble", "Section", "Done"}
          /\ \A j \in 1..(i - 1) : emitted[j] = "Done" => emitted[i] = "Done"
    /\ Rank(location) - Rank(prevLocation) \in {0, 1}
    /\ (location = "ModuleHeader") <=> (emitted = <<>>)
    /\ (location = "End") <=> (\E i \in 1..Len(emitted) : emitted[i] = "Done")

C1_Witness == emitted = <<"Preamble", "Section", "Done">>

\* C2: once Done has been returned, a parse call with an empty buffer returns
\* (0, Done), one with a non-empty buffer returns UnneededBytes, and the
\* parser stays in End.
C2_DoneIsFinal ==
    CalledAfterDone =>
        /\ location = "End"
        /\ buffer = <<>> => result = ParseOk(0, ChunkDone)
        /\ buffer # <<>> => result = ParseErr(<<"UnneededBytes">>)

C2_Witness ==
    /\ emitted = <<"Preamble", "Done">>
    /\ buffer # <<>>
    /\ result = ParseErr(<<"UnneededBytes">>)

\* C3: a successful parse of a non-empty buffer in ModuleHeader or Section
\* consumes at least 1 byte: 8 for the preamble, at least 2 for a section.
C3_Progress ==
    (result.ok /\ buffer # <<>> /\ prevLocation \in {"ModuleHeader", "Section"}) =>
        /\ result.consumed >= 1
        /\ result.chunk.kind = "Preamble" => result.consumed = 8
        /\ result.chunk.kind = "Section" => result.consumed >= 2

C3_Witness ==
    /\ result.ok
    /\ prevLocation = "Section"
    /\ result.chunk.kind = "Section"
    /\ result.consumed = 2

\* the value of a LEB128 field, least significant group first
RECURSIVE LebFieldValue(_)
LebFieldValue(bytes) ==
    IF bytes = <<>> THEN 0 ELSE (Head(bytes) % 128) + 128 * LebFieldValue(Tail(bytes))

\* C4: a successful parse of a section consumes the id byte, the size field
\* and the declared size; the sub-reader holds exactly the declared-size bytes
\* after the size field; the consumed bytes lie inside the buffer.
C4_SectionConsumed ==
    (result.ok /\ buffer # <<>> /\ prevLocation = "Section") =>
        \E n \in 1..(Len(buffer) - 1) :
            /\ \A i \in 1..(n - 1) : buffer[1 + i] >= 128
            /\ buffer[1 + n] < 128
            /\ LET size == LebFieldValue(SubSeq(buffer, 2, 1 + n))
               IN /\ result.consumed = 1 + n + size
                  /\ result.consumed <= Len(buffer)
                  /\ result.chunk.kind = "Section"
                  /\ result.chunk.section.id = buffer[1]
                  /\ result.chunk.section.bytes = SubSeq(buffer, 2 + n, 1 + n + size)

\* a section of one body byte whose size field takes two bytes
C4_Witness ==
    /\ result.ok
    /\ prevLocation = "Section"
    /\ result.chunk.kind = "Section"
    /\ buffer[2] >= 128
    /\ Len(result.chunk.section.bytes) = 1
    /\ result.consumed = 4

\* C5: the driver loop reaches Done or an error after finitely many parse calls.
C5_DriverTerminates == <>(pc \in {"done", "error"})

C5_Witness ==
    /\ pc = "done"
    /\ prevLocation = "Section"
    /\ result = ParseOk(0, ChunkDone)
    /\ buffer = <<>>

\* the little-endian u32 of four bytes
LittleEndianU32(b) ==
    U32(b[4] \div 16, b[1] + b[2] * 256 + b[3] * 65536 + (b[4] % 16) * 16777216)

\* C6: in ModuleHeader, parse of a buffer of at least 8 bytes returns
\* (8, Preamble(first 4 bytes, little-endian u32 of the next 4)), whatever
\* the magic bytes and the version are.
C6_PreambleNotJudged ==
    (Called /\ prevLocation = "ModuleHeader" /\ Len(buffer) >= 8) =>
        result = ParseOk(8, ChunkPreamble(SubSeq(buffer, 1, 4),
                                          LittleEndianU32(SubSeq(buffer, 5, 8))))

\* C7: in ModuleHeader, parse of a buffer shorter than 8 bytes returns
\* PreambleReader(BinaryReaderError(UnexpectedEof)).
C7_ShortPreambleIsEof ==
    (Called /\ prevLocation = "ModuleHeader" /\ Len(buffer) < 8) =>
        result = ParseErr(<<"PreambleReader", "BinaryReaderError", "UnexpectedEof">>)

(***************************************************************************)
(* Properties of the validator.                                            *)
(***************************************************************************)
\* C8: validate on Preamble(magic, version) is Ok iff magic = \0asm and
\* version = 1, BadMagicNumber whenever the magic differs, BadVersion when
\* the magic is right and the version is not 1.
C8_PreambleValidation ==
    chunk.kind = "Preamble" =>
        LET goodMagic == chunk.magic_number = <<0, 97, 115, 109>>
            goodVersion == chunk.version.hi = 0 /\ chunk.version.lo = 1
        IN /\ (vresult = "Ok") <=> (goodMagic /\ goodVersion)
           /\ ~goodMagic => vresult = "BadMagicNumber"
           /\ (goodMagic /\ ~goodVersion) => vresult = "BadVersion"

\* a wrong magic number together with a wrong version
C8_Witness ==
    /\ chunk.kind = "Preamble"
    /\ chunk.magic_number = <<0, 97, 115, 110>>
    /\ chunk.version = U32Of(2)
    /\ vresult = "BadMagicNumber"

\* the operands of `stack` above the entry height of `frame`
AboveHeight(stack, frame) == SubSeq(stack, frame.height + 1, Len(stack))

\* the operands `above` are the last Len(above) of the types `tys`, an Unknown
\* standing for any type
MatchesTail(above, tys) ==
    /\ Len(above) <= Len(tys)
    /\ \A i \in 1..Len(above) :
          above[i] \in {Unknown, Known(tys[Len(tys) - Len(above) + i])}

\* what a frame's end requires of the stack: exactly the frame's result types
\* (in an unreachable frame the missing ones are supplied as Unknown)
FrameResultsOnStack(stack, frame) ==
    LET above == AboveHeight(stack, frame)
        tys == results(frame.block_type).types
    IN /\ MatchesTail(above, tys)
       /\ ~frame.unreachable => Len(above) = Len(tys)

\* C9: when `end` closes a frame (the function's outermost frame included) the
\* stack above the frame's entry height must be exactly the frame's result
\* types: `end` is accepted only then, too few operands in a reachable frame
\* give OperandStackEmpty, and operands left over give ValuesAtEndOfBlock.
C9_EndEnforcesResults ==
    LastIs("End") /\ prev.status = Ok =>
        LET frame == Last(prev.control_stack)
            above == AboveHeight(prev.operand_stack, frame)
            tys == results(frame.block_type).types
        IN /\ status = Ok => FrameResultsOnStack(prev.operand_stack, frame)
           /\ (~frame.unreachable /\ Len(above) < Len(tys) /\ MatchesTail(above, tys))
                  => status[1] = "OperandStackEmpty"
           /\ (Len(above) > Len(tys)
                  /\ MatchesTail(SubSeq(above, Len(above) - Len(tys) + 1, Len(above)), tys))
                  => status[1] = "ValuesAtEndOfBlock"

\* C10: in a frame marked by `unreachable`, no pop fails for want of an
\* operand; an operand that was pushed after the `unreachable` is still
\* checked against the type a pop expects; and the `end` of the frame is
\* accepted only with the frame's result types on the stack.
C10_UnreachableFrame ==
    (body # <<>> /\ prev.status = Ok /\ Last(prev.control_stack).unreachable) =>
        LET frame == Last(prev.control_stack)
            above == AboveHeight(prev.operand_stack, frame)
        IN /\ status[1] # "OperandStackEmpty"
           /\ (LastIs("I64Eqz") /\ above # <<>> /\ Last(above) # Known("I64"))
                  => status[1] = "TypeMismatch"
           /\ (LastIs("End") /\ status = Ok)
                  => MatchesTail(above, results(frame.block_type).types)

\* the checker state before the last instruction
PrevState ==
    [operand_stack |-> prev.operand_stack, control_stack |-> prev.control_stack,
     err |-> Ok, popped |-> Unknown]

\* the label types of the frame a label index denotes: the parameters of a
\* Loop, the results of any other frame
LabelTypes(stack, l) ==
    LET frame == stack[Len(stack) - l]
    IN IF frame.kind = "Loop"
       THEN params(frame.block_type).types
       ELSE results(frame.block_type).types

\* the last instruction is a br_table met with an i32 on top of the stack,
\* all its labels in range and the default's label types under the i32
BranchTableCase ==
    /\ LastIs("BranchTable")
    /\ prev.status = Ok
    /\ \A i \in 1..Len(Last(body).labels) :
          Last(body).labels[i] < Len(prev.control_stack)
    /\ pop_knowns(PrevState,
           <<"I32">> \o Reverse(LabelTypes(prev.control_stack, Last(Last(body).labels)))).err
         = Ok

\* all targets of the br_table, the default included, have the same label types
UniformTargets ==
    LET labels == Last(body).labels
    IN \A i \in 1..Len(labels) :
          LabelTypes(prev.control_stack, labels[i])
              = LabelTypes(prev.control_stack, Last(labels))

\* C11: a br_table met with an i32 on top, labels in range and the default's
\* label types available is accepted iff the label types of all its targets
\* are equal, and is rejected with TargetLabelsTypeMismatch otherwise; when
\* accepted it leaves the frame unreachable with its stack at the frame's height.
C11_BranchTableUniform ==
    BranchTableCase =>
        /\ (status = Ok) <=> UniformTargets
        /\ ~UniformTargets => status[1] = "TargetLabelsTypeMismatch"
        /\ status = Ok =>
              /\ Last(control_stack).unreachable
              /\ Len(operand_stack) = Last(control_stack).height

\* a table whose two targets differ, a Loop's parameters against a result
C11_Witness ==
    /\ BranchTableCase
    /\ Len(Last(body).labels) = 2
    /\ status[1] = "TargetLabelsTypeMismatch"
    /\ \E i \in 1..Len(prev.control_stack) :
          /\ prev.control_stack[i].kind = "Loop"
          /\ Len(prev.control_stack) - i \in {Last(body).labels[1], Last(body).labels[2]}

\* the last instruction is a global.set of a declared global, met with an
\* operand of the global's type on top of the stack of the current frame
GlobalSetCase ==
    /\ LastIs("GlobalSet")
    /\ prev.status = Ok
    /\ Last(body).index < Len(globals)
    /\ Len(prev.operand_stack) > Last(prev.control_stack).height
    /\ Last(prev.operand_stack) = Known(globals[Last(body).index + 1].var_type)

\* C12: global.set g with an operand of g's type on the stack is rejected with
\* SettingImmutableGlobal(g) when g is immutable, imported or defined in the
\* module; when g is mutable it is accepted and pops that one operand.
C12_GlobalSetMutability ==
    GlobalSetCase =>
        IF globals[Last(body).index + 1].mutable
        THEN /\ status = Ok
             /\ operand_stack = SubSeq(prev.operand_stack, 1, Len(prev.operand_stack) - 1)
             /\ control_stack = prev.control_stack
        ELSE status = <<"SettingImmutableGlobal", Last(body).index>>

\* i32.const, then global.set of the imported immutable i32 global
C12_Witness ==
    /\ GlobalSetCase
    /\ Last(body).index = 0
    /\ ModuleSections[2].items[1] = ImportGlobal(GlobalType("I32", FALSE))
    /\ status = <<"SettingImmutableGlobal", 0>>

(***************************************************************************)
(* Properties of the module validator.                                     *)
(***************************************************************************)
\* the names of the exports of a chunk, none when it is not an Export section
ExportNamesOf(c) ==
    IF c.kind = "Section" /\ c.section.kind = "Export"
    THEN {c.section.items[i].name : i \in 1..Len(c.section.items)}
    ELSE {}

\* the index of an export is in range for its kind
ExportInRange(export, ctx) ==
    CASE export.kind = "Func" -> export.index < Len(ctx.function_type_indices)
      [] export.kind = "Global" -> export.index < Len(ctx.globals)
      [] export.kind = "Table" ->
            ctx.max_table_index.some /\ export.index <= ctx.max_table_index.val
      [] export.kind = "Memory" ->
            ctx.max_memory_index.some /\ export.index <= ctx.max_memory_index.val

\* the j-th export of the section validated next bears a name the validator
\* has seen: earlier in the section, or in the Export section it accepted in
\* the call before
DuplicateExport(j) ==
    chunk'.section.items[j].name \in
        (IF vresult = Ok THEN ExportNamesOf(chunk) ELSE {})
        \cup {chunk'.section.items[i].name : i \in 1..(j - 1)}

\* C13: an Export section with an export whose name the validator has already
\* seen for the module is rejected, with DuplicateName when it is the first
\* export of the section, whatever its descriptor; exports with names not seen
\* before, pairwise distinct and with indices in range are accepted.
C13_DuplicateExportName ==
    [][Validated("Export")' =>
          /\ (\E j \in 1..Len(chunk'.section.items) : DuplicateExport(j))
                => vresult' # Ok
          /\ (chunk'.section.items # <<>> /\ DuplicateExport(1))
                => vresult' = <<"DuplicateName">>
          /\ (/\ \A j \in 1..Len(chunk'.section.items) : ~DuplicateExport(j)
              /\ \A j \in 1..Len(chunk'.section.items) :
                     ExportInRange(chunk'.section.items[j], context))
                => vresult' = Ok]_vars

\* the same within one Export section only: the names of earlier sections are
\* not looked at
ExportNamesDistinctWithinSection ==
    Validated("Export") =>
        /\ (\E i, j \in 1..Len(chunk.section.items) :
                i < j /\ chunk.section.items[i].name = chunk.section.items[j].name)
              => vresult # Ok
        /\ (/\ \A i, j \in 1..Len(chunk.section.items) :
                   i < j => chunk.section.items[i].name # chunk.section.items[j].name
            /\ \A j \in 1..Len(chunk.section.items) :
                   ExportInRange(chunk.section.items[j], context))
              => vresult = Ok

\* the instruction that is the constant of a value type
ConstOp(ty) ==
    CASE ty = "I32" -> "I32Const" [] ty = "I64" -> "I64Const"
      [] ty = "F32" -> "F32Const" [] ty = "F64" -> "F64Const"

\* expr is a constant expression of type ty: a constant of ty, or global.get
\* of a declared immutable global of type ty, followed by End and nothing else
ConstantExpr(expr, ty, gs) ==
    /\ Len(expr) = 2
    /\ expr[2].op = "End"
    /\ \/ expr[1].op = ConstOp(ty)
       \/ /\ expr[1].op = "GlobalGet"
          /\ expr[1].index < Len(gs)
          /\ gs[expr[1].index + 1].var_type = ty
          /\ ~gs[expr[1].index + 1].mutable

MemoryDeclared(m, ctx) == ctx.max_memory_index.some /\ m <= ctx.max_memory_index.val

\* C14: a data segment is accepted iff its memory_index denotes a declared
\* memory and its offset is a constant expression of type i32; with a memory,
\* the offset `f32.const 0 end` is rejected with InvalidInitExpr; with no
\* memory the segment is rejected with InvalidMemoryIndex.
C14_DataSegment ==
    (Validated("Data") /\ Len(chunk.section.items) = 1) =>
        LET data_segment == chunk.section.items[1]
        IN /\ (vresult = Ok) <=>
                  /\ MemoryDeclared(data_segment.memory_index, context)
                  /\ ConstantExpr(data_segment.expr, "I32", context.globals)
           /\ (/\ MemoryDeclared(data_segment.memory_index, context)
               /\ data_segment.expr = <<Instr("F32Const", Empty, 0), Instr("End", Empty, 0)>>)
                 => vresult = InvalidInitExpr
           /\ ~context.max_memory_index.some
                 => vresult = <<"InvalidMemoryIndex", data_segment.memory_index>>

\* the same with any declared global allowed in global.get, mutable or not
DataSegmentAnyGlobal ==
    (Validated("Data") /\ Len(chunk.section.items) = 1) =>
        LET data_segment == chunk.section.items[1]
        IN (vresult = Ok) <=>
              /\ MemoryDeclared(data_segment.memory_index, context)
              /\ Len(data_segment.expr) = 2
              /\ data_segment.expr[2].op = "End"
              /\ \/ data_segment.expr[1].op = "I32Const"
                 \/ /\ data_segment.expr[1].op = "GlobalGet"
                    /\ data_segment.expr[1].index < Len(context.globals)
                    /\ context.globals[data_segment.expr[1].index + 1].var_type = "I32"

\* an initializer that begins with global.get
IsGlobalGet(expr) == expr # <<>> /\ expr[1].op = "GlobalGet"

\* C17: when a Global, Element or Data section is accepted, every global.get g
\* in its initializers names a global declared before the section (so not one
\* the section defines) that is immutable; a Global section whose first
\* initializer is global.get of an undeclared or a mutable global is rejected
\* with InvalidInitExpr.
C17_ConstGlobalGet ==
    (Validated("Global") \/ Validated("Element") \/ Validated("Data")) =>
        \A i \in 1..Len(chunk.section.items) :
            IsGlobalGet(chunk.section.items[i].expr) =>
                LET g == chunk.section.items[i].expr[1].index
                IN /\ vresult = Ok =>
                         /\ g < Len(prevContext.globals)
                         /\ ~prevContext.globals[g + 1].mutable
                   /\ (/\ Validated("Global")
                       /\ i = 1
                       /\ \/ g >= Len(prevContext.globals)
                          \/ prevContext.globals[g + 1].mutable)
                         => vresult = InvalidInitExpr

\* C15: an accepted Import section appends the type indices of its function
\* imports to function_type_indices, in import order, and an accepted Function
\* section appends its entries: after k function imports and m Function
\* entries the vector holds the k imports' type indices, then the m entries.
C15_ImportedFunctionsFirst ==
    /\ (Validated("Import") /\ vresult = Ok) =>
           context.function_type_indices
               = prevContext.function_type_indices \o FuncImportTypes(chunk.section.items)
    /\ (Validated("Function") /\ vresult = Ok) =>
           context.function_type_indices
               = prevContext.function_type_indices \o chunk.section.items

\* the number of tables or memories an index maximum stands for
Declared(max_index) == IF max_index.some THEN max_index.val + 1 ELSE 0

\* C16: an accepted chunk never declares a second table or a second memory:
\* met with at most one of each, it leaves at most one of each.
C16_OneTableOneMemory ==
    (/\ chunk.kind = "Section"
     /\ vresult = Ok
     /\ Declared(prevContext.max_table_index) <= 1
     /\ Declared(prevContext.max_memory_index) <= 1)
        => /\ Declared(context.max_table_index) <= 1
           /\ Declared(context.max_memory_index) <= 1

\* C18: a Code section is accepted only if it has as many entries as there
\* are Function-section entries; with more entries it is rejected.
C18_CodeCountMatches ==
    Validated("Code") =>
        /\ vresult = Ok => Len(chunk.section.items) = Len(context.function_type_indices)
        /\ Len(chunk.section.items) > Len(context.function_type_indices) => vresult # Ok

\* the tables or memories among the items of the section validated last: an
\* Import section holds imports of every kind, a Table or Memory section
\* holds limits
ItemIsOf(kind, i) ==
    IF chunk.section.kind = "Import" THEN chunk.section.items[i].kind = kind
    ELSE chunk.section.kind = kind
LimitsOfItem(i) ==
    IF chunk.section.kind = "Import" THEN chunk.section.items[i].limits
    ELSE chunk.section.items[i]
ItemsOf(kind, n) == {i \in 1..n : ItemIsOf(kind, i)}
Least(S) == CHOOSE i \in S : \A j \in S : i <= j

\* the limits rule of a kind: the section is accepted only if every item of
\* the kind is Good; it is rejected with err at the first that is not; the
\* items of the kind before it, and no other, are counted
LimitsRule(kind, Good(_), err, counted) ==
    LET n == Len(chunk.section.items)
        bad == {i \in ItemsOf(kind, n) : ~Good(LimitsOfItem(i))}
    IN /\ vresult = Ok => bad = {} /\ counted = Cardinality(ItemsOf(kind, n))
       /\ vresult = err => bad # {} /\ counted = Cardinality(ItemsOf(kind, Least(bad) - 1))
       /\ (chunk.section.kind = kind /\ bad # {}) => vresult = err

TableLimitsOk(limits) ==
    limits.max.some => AsUsize(limits.min) <= AsUsize(limits.max.val)

\* C23: a table whose max is present and smaller than its min is rejected with
\* InvalidTableLimits, imported or defined in the Table section, and only the
\* tables that pass are counted in max_table_index.
C23_TableLimits ==
    (Validated("Table") \/ Validated("Import")) =>
        LimitsRule("Table", TableLimitsOk, <<"InvalidTableLimits">>,
                   Declared(context.max_table_index) - Declared(prevContext.max_table_index))

\* the rule holds for the imported tables
ImportedTableLimits ==
    Validated("Import") =>
        LimitsRule("Table", TableLimitsOk, <<"InvalidTableLimits">>,
                   Declared(context.max_table_index) - Declared(prevContext.max_table_index))

MemoryLimitsOk(limits) ==
    /\ AsUsize(limits.min) <= 65536
    /\ limits.max.some =>
          AsUsize(limits.max.val) <= 65536 /\ AsUsize(limits.min) <= AsUsize(limits.max.val)

\* C24: a memory type, imported or defined in the Memory section, is accepted
\* iff min <= 65536 and, when max is present, max <= 65536 and min <= max;
\* otherwise it is rejected with InvalidMemoryLimits and is not counted in
\* max_memory_index.
C24_MemoryLimits ==
    (Validated("Memory") \/ Validated("Import")) =>
        LimitsRule("Memory", MemoryLimitsOk, <<"InvalidMemoryLimits">>,
                   Declared(context.max_memory_index) - Declared(prevContext.max_memory_index))

\* a Memory section was rejected at its second memory, whose max is below its
\* min, after its first was counted; and an imported memory of 65537 pages
\* was rejected before
C24_Witness ==
    /\ Validated("Memory")
    /\ Len(chunk.section.items) = 2
    /\ chunk.section.items[2] = Limits(U32Of(2), Some(U32Of(1)))
    /\ vresult = <<"InvalidMemoryLimits">>
    /\ Declared(context.max_memory_index) = Declared(prevContext.max_memory_index) + 1

\* the functions declared so far, in the order of their indices: the
\* imported ones, then the entries of the Function sections
DeclaredFunctions == imported \o context.function_type_indices

StartRule(functions) ==
    LET f == chunk.section.items[1]
    IN IF f >= Len(functions) THEN vresult = <<"InvalidFuncIndex", f>>
       ELSE LET type == context.function_types[functions[f + 1] + 1]
            IN IF type.params = <<>> /\ type.results = <<>> THEN vresult = Ok
               ELSE vresult = <<"InvalidType">>

\* C25: a Start section is accepted iff its function index refers to a
\* declared function whose type has no parameters and no results; it is
\* rejected with InvalidFuncIndex for an unknown function and with InvalidType
\* for another signature.
C25_StartFunction ==
    Validated("Start") => StartRule(DeclaredFunctions)

\* the rule holds of the functions of the Function sections taken alone
StartAmongDefinedFunctions ==
    Validated("Start") => StartRule(context.function_type_indices)

IsPrefix(s, t) == Len(s) <= Len(t) /\ SubSeq(t, 1, Len(s)) = s
NotBelow(max_index, max_index_after) ==
    /\ max_index.some => max_index_after.some
    /\ Declared(max_index) <= Declared(max_index_after)

\* C26: across the validate calls on one Validator, accepted or rejected, the
\* context only grows: function_types, function_type_indices and globals
\* change by appending at the end, and max_table_index and max_memory_index
\* never decrease or go back to absent.
C26_ContextOnlyGrows ==
    [][/\ IsPrefix(context.function_types, context'.function_types)
       /\ IsPrefix(context.function_type_indices, context'.function_type_indices)
       /\ IsPrefix(context.globals, context'.globals)
       /\ NotBelow(context.max_table_index, context'.max_table_index)
       /\ NotBelow(context.max_memory_index, context'.max_memory_index)]_vars

\* a Global section was rejected at its second global after its first was
\* added to globals that already held a global of another type
C26_Witness ==
    /\ Validated("Global")
    /\ vresult # Ok
    /\ Len(prevContext.globals) = 1
    /\ Len(context.globals) = 2
    /\ context.globals[1] # context.globals[2]

(***************************************************************************)
(* Properties of the LEB128 readers.                                       *)
(***************************************************************************)
\* the reader was made over n bytes, all but the last with the continuation
\* bit set, and the operation was applied to it
LastByteCase(op, n) ==
    /\ num.kind = "raw"
    /\ read.op = op
    /\ Len(binary_reader.buffer) = n
    /\ \A i \in 1..(n - 1) : binary_reader.buffer[i] >= 128

\* the read returned the number that was encoded and stopped at the end of
\* the encoding
ReadBack ==
    /\ read.res.ok
    /\ read.res.val = num.val
    /\ read.res.pos = Len(binary_reader.buffer)
    /\ binary_reader.position = Len(binary_reader.buffer)

\* the input ended on a byte with the continuation bit set
EndsInContinuation(op) ==
    /\ num.kind = "raw"
    /\ read.op = op
    /\ binary_reader.buffer # <<>>
    /\ \A i \in 1..Len(binary_reader.buffer) : binary_reader.buffer[i] >= 128

BitOf(byte, j) == (byte \div 2 ^ j) % 2

\* C19: read_leb128_u32 on encode_u32(x) returns Ok(x) with the cursor at the
\* end of the encoding; five bytes whose fifth has one of its top four bits
\* set give InvalidU32; an input that ends on a continuation byte gives
\* UnexpectedEof.
C19_U32RoundTrip ==
    /\ (num.kind = "u32" /\ read.op = "read_leb128_u32") =>
           ReadBack /\ binary_reader.buffer = encode_u32(num.val)
    /\ (LastByteCase("read_leb128_u32", 5) /\ binary_reader.buffer[5] \div 16 # 0) =>
           (~read.res.ok /\ read.res.err = "InvalidU32")
    /\ (EndsInContinuation("read_leb128_u32") /\ Len(binary_reader.buffer) < 5) =>
           (~read.res.ok /\ read.res.err = "UnexpectedEof")

\* 2^32 - 1 was encoded in five bytes and read back
C19_Witness ==
    /\ num.kind = "u32"
    /\ num.val = U32(15, 268435455)
    /\ read.op = "read_leb128_u32"
    /\ read.res.ok
    /\ binary_reader.position = 5

\* the last permissible byte is refused: its continuation bit is set, or one
\* of its bits above the sign bit differs from the sign bit
RefusedLastByte(byte, sign) ==
    \/ byte >= 128
    \/ \E j \in (sign + 1)..6 : BitOf(byte, j) # BitOf(byte, sign)

\* C20: the signed readers return the number that was encoded, sign-extended
\* to the width of their result, with the cursor at the end of the encoding;
\* on the last permissible byte (the 5th, 5th and 10th) they return
\* InvalidS32, InvalidS33 and InvalidS64 exactly when its continuation bit is
\* set or its unused bits do not all equal the sign bit.
C20_SignedRoundTrip ==
    /\ (num.kind = "s32" /\ read.op = "read_leb128_s32") =>
           ReadBack
    /\ (num.kind = "s33" /\ read.op = "read_leb128_s33") =>
           ReadBack
    /\ (num.kind = "s64" /\ read.op = "read_leb128_s64") =>
           ReadBack
    /\ LastByteCase("read_leb128_s32", 5) =>
           IF RefusedLastByte(binary_reader.buffer[5], 3)
           THEN ~read.res.ok /\ read.res.err = "InvalidS32"
           ELSE read.res.ok /\ Len(read.res.val) = 32
    /\ LastByteCase("read_leb128_s33", 5) =>
           IF RefusedLastByte(binary_reader.buffer[5], 4)
           THEN ~read.res.ok /\ read.res.err = "InvalidS33"
           ELSE /\ read.res.ok
                /\ \A i \in 33..64 : read.res.val[i] = BitOf(binary_reader.buffer[5], 4)
    /\ LastByteCase("read_leb128_s64", 10) =>
           IF RefusedLastByte(binary_reader.buffer[10], 0)
           THEN ~read.res.ok /\ read.res.err = "InvalidS64"
           ELSE read.res.ok /\ read.res.val[64] = BitOf(binary_reader.buffer[10], 0)

\* -2^63 was encoded in ten bytes and read back
C20_Witness ==
    /\ num.kind = "s64"
    /\ num.val = Pattern(64, 63, "zeros", 1)
    /\ read.op = "read_leb128_s64"
    /\ read.res.ok
    /\ binary_reader.position = 10

(***************************************************************************)
(* Properties of the BinaryReader.                                         *)
(***************************************************************************)
\* C21: after any sequence of read operations, successful or failing, the
\* position of the reader is at most the length of its buffer.
C21_PositionWithinBuffer ==
    binary_reader.position <= Len(binary_reader.buffer)

\* a read_value_type was made on a reader with a byte left
ValueTypeCase(op) ==
    /\ read.op = op
    /\ read.from < Len(binary_reader.buffer)
ByteAtValueType == binary_reader.buffer[read.from + 1]
ValueTypeOf(byte) ==
    CASE byte = 127 -> "I32" [] byte = 126 -> "I64" [] byte = 125 -> "F32"
      [] byte = 124 -> "F64" [] OTHER -> "None"
ValueTypeRead ==
    IF ValueTypeOf(ByteAtValueType) # "None"
    THEN /\ read.res.ok
         /\ read.res.val = ValueTypeOf(ByteAtValueType)
         /\ binary_reader.position = read.from + 1
    ELSE /\ ~read.res.ok
         /\ read.res.err = "InvalidValueTypeByte"
         /\ binary_reader.position = read.from

\* C22: read_value_type maps 0x7F, 0x7E, 0x7D, 0x7C to i32, i64, f32, f64 and
\* advances by one byte; on any other byte it returns InvalidValueTypeByte
\* and leaves the position where it was.
C22_ReadValueType ==
    (ValueTypeCase("read_value_type") \/ ValueTypeCase("binary_reader::read_value_type"))
        => ValueTypeRead

\* the read_value_type of readers/binary.rs alone
ReadValueTypeOfReaders ==
    ValueTypeCase("read_value_type") => ValueTypeRead

\* an item was read by its section reader
SegmentWasRead ==
    read.op \in {"read_global_segment", "read_data_segment", "read_element_segment"}

\* C30: the region handed to the instruction reader holds exactly the bytes of
\* the initializer up to and including its End, also when an immediate holds
\* the byte 0x0B, and the section cursor resumes right after that End; a
\* global so read, whose constant is of its type, is validated successfully.
C30_InitializerRegion ==
    /\ SegmentWasRead =>
          /\ read.res.ok
          /\ read.res.val.instruction_reader = num.val
          /\ read.res.val.after_expr = num.before + Len(num.val)
    /\ (read.op = "read_global_segment" /\ vresult # <<"NotCalled">>
            /\ read.res.val.fields.var_type = num.var_type)
          => vresult = Ok

\* an initializer without the byte 0x0B before its End is read whole
InitializerWithoutEndByte ==
    (SegmentWasRead /\ \A i \in 1..(Len(num.val) - 1) : num.val[i] # 11) =>
        /\ read.res.ok
        /\ read.res.val.instruction_reader = num.val
        /\ read.res.val.after_expr = num.before + Len(num.val)

(***************************************************************************)
(* Properties of the branch, select and block instructions.                *)
(***************************************************************************)

\* the last instruction is a br_if whose label is in range
BranchIfCase ==
    /\ LastIs("BranchIf")
    /\ prev.status = Ok
    /\ Last(body).index < Len(prev.control_stack)

\* the state after popping an i32, popping the label types and pushing them
\* back
BranchIfPopped ==
    pop_knowns(pop_known(PrevState, "I32"),
               Reverse(LabelTypes(prev.control_stack, Last(body).index)))

\* C27: br_if l pops an i32 condition, pops the label types of l and pushes
\* them back, and leaves the current frame as reachable as it was: it is
\* accepted exactly when those pops succeed, and then the operand stack is the
\* stack before it minus the i32 and the control stack is unchanged.
C27_BranchIf ==
    BranchIfCase =>
        IF BranchIfPopped.err = Ok
        THEN /\ status = Ok
             /\ operand_stack = SubSeq(prev.operand_stack, 1, Len(prev.operand_stack) - 1)
             /\ control_stack = prev.control_stack
        ELSE status # Ok

\* what the BranchIf arm does: no i32 is popped, the label types are popped,
\* and the frame is left unreachable with its operands dropped
BranchIfMarksUnreachable ==
    BranchIfCase =>
        LET tys == LabelTypes(prev.control_stack, Last(body).index)
            popped == pop_knowns(PrevState, Reverse(tys))
        IN IF popped.err = Ok
           THEN /\ status = Ok
                /\ Last(control_stack).unreachable
                /\ operand_stack = SubSeq(prev.operand_stack, 1, Last(control_stack).height)
           ELSE status = popped.err

\* the last instruction is a select; the three pops of the Select arm on the
\* state before it
SelectCase == LastIs("Select") /\ prev.status = Ok
SelectCondition == pop_known(PrevState, "I32")
SelectFirst == pop_operand(SelectCondition)
SelectSecond == pop_operand(SelectFirst)

\* C28: select pops an i32 and then two operands; it is accepted when both
\* are Known and equal and when at least one is Unknown, pushing the Known one
\* if there is one and Unknown otherwise; it is rejected with TypeMismatch
\* only when both are Known and differ.
C28_Select ==
    (SelectCase /\ SelectSecond.err = Ok) =>
        LET first == SelectFirst.popped
            second == SelectSecond.popped
        IN IF is_known(first) /\ is_known(second) /\ first # second
           THEN status[1] = "TypeMismatch"
           ELSE /\ status = Ok
                /\ control_stack = prev.control_stack
                /\ operand_stack =
                       Append(SelectSecond.operand_stack,
                              IF is_known(first) THEN first ELSE second)

\* select with an Unknown operand is rejected with TypeMismatch
SelectOfUnknownOperand ==
    (SelectCase /\ SelectSecond.err = Ok
        /\ (is_unknown(SelectFirst.popped) \/ is_unknown(SelectSecond.popped))) =>
        status[1] = "TypeMismatch"

\* the last instruction is a block form whose BlockType is a type index that
\* denotes a type
BlockCase ==
    /\ LastIs("Block") \/ LastIs("Loop") \/ LastIs("If")
    /\ prev.status = Ok
    /\ Last(body).block_type.kind = "TypeIndex"
    /\ params(Last(body).block_type).err = Ok

\* the state the parameters are popped from: `if` pops its condition first
BlockEntered == IF LastIs("If") THEN pop_known(PrevState, "I32") ELSE PrevState

\* the block form was accepted iff popping `tys` in that order succeeds, and
\* then what is left is the operand stack and a new frame is pushed at its
\* height
BlockPops(tys) ==
    LET popped == pop_knowns(BlockEntered, tys)
    IN IF popped.err = Ok
       THEN /\ status = Ok
            /\ operand_stack = popped.operand_stack
            /\ control_stack =
                   Append(prev.control_stack,
                          ControlFrame(Last(body).op, Last(body).block_type,
                                       Len(popped.operand_stack), FALSE))
       ELSE status # Ok

\* C29: entering block, loop or if with a type index pops the parameter
\* types right-to-left, last parameter first (a block of type (i32, i64) -> ()
\* is accepted exactly when the stack top is i64 with i32 below it), `if`
\* after its i32 condition; then a new frame is pushed.
C29_BlockParams ==
    BlockCase => BlockPops(Reverse(params(Last(body).block_type).types))

\* what validate_block_type does: the parameters are popped first to last
BlockParamsFirstToLast ==
    BlockCase => BlockPops(params(Last(body).block_type).types)

(***************************************************************************)
(* Properties of the InstructionReader.                                    *)
(***************************************************************************)

\* the last read was InstructionReader::read on one of the opcodes
InstructionCase(opcodes) ==
    /\ read.op = "InstructionReader::read"
    /\ read.from < Len(binary_reader.buffer)
    /\ binary_reader.buffer[read.from + 1] \in opcodes

\* the block type at a position: a value type byte, 0x40, or an s33 that
\* starts at that same byte
BlockTypeAt(buf, position) ==
    LET val_type == read_value_type(buf, position)
        b == read_byte(buf, position)
        index == read_leb128_s33(buf, position)
    IN IF val_type.ok THEN ROk(ValueType(val_type.val), position + 1)
       ELSE IF ~b.ok THEN b
       ELSE IF b.val = 64 THEN ROk(Empty, position + 1)
       ELSE IF ~index.ok THEN index
       ELSE IF out_of_u32(index.val) THEN RErr("InvalidBlockTypeIndex", index.pos)
       ELSE ROk(TypeIndex(AsUsize(as_u32(index.val))), index.pos)

\* C31: decoding a BlockType consumes exactly its bytes: a value type byte
\* gives ValueType(t), 0x40 gives Empty, and otherwise the byte read is
\* rewound and an s33 is decoded from that same byte, giving TypeIndex(n) for
\* 0 <= n <= 2^32 - 1 and InvalidBlockTypeIndex for a negative n (the single
\* byte 0x05 is TypeIndex(5)).
C31_BlockType ==
    InstructionCase({2, 3, 4}) =>
        \E expected \in {BlockTypeAt(binary_reader.buffer, read.from + 1)} :
            /\ read.res.ok = expected.ok
            /\ IF expected.ok
               THEN /\ read.res.val.block_type = expected.val
                    /\ binary_reader.position = expected.pos
               ELSE read.res.err = expected.err

\* what read_block_type does with a byte that is neither a value type nor
\* 0x40: the byte is skipped and the s33 is decoded from the byte after it
BlockTypeIndexAfterSkippedByte ==
    (InstructionCase({2, 3, 4})
        /\ read.from + 1 < Len(binary_reader.buffer)
        /\ binary_reader.buffer[read.from + 2] \notin {64, 124, 125, 126, 127}) =>
        \E index \in {read_leb128_s33(binary_reader.buffer, read.from + 2)} :
            /\ read.res.ok = (index.ok /\ ~out_of_u32(index.val))
            /\ read.res.ok =>
                  /\ read.res.val.block_type = TypeIndex(AsUsize(as_u32(index.val)))
                  /\ binary_reader.position = index.pos

\* C32: opcode 0x11 reads a LEB128 u32 type index and then one table byte
\* that must be 0x00; the instruction consumes both, so the next instruction
\* is decoded from the byte after the 0x00, and any other table byte makes the
\* read fail.
C32_CallIndirectTableByte ==
    InstructionCase({17}) =>
        \E type_index \in {read_leb128_u32(binary_reader.buffer, read.from + 1)} :
            IF ~type_index.ok THEN ~read.res.ok
            ELSE \E table \in {read_byte(binary_reader.buffer, type_index.pos)} :
                    IF table.ok /\ table.val = 0
                    THEN /\ read.res.ok
                         /\ read.res.val = Instr("CallIndirect", Empty, AsUsize(type_index.val))
                         /\ binary_reader.position = table.pos
                    ELSE ~read.res.ok

\* what the arm 0x11 does: the type index is all it reads
CallIndirectReadsTypeIndexOnly ==
    InstructionCase({17}) =>
        \E type_index \in {read_leb128_u32(binary_reader.buffer, read.from + 1)} :
            /\ read.res.ok = type_index.ok
            /\ binary_reader.position = type_index.pos

\* the arms 0x3F and 0x40 do read a byte that must be 0x00
MemorySizeByte ==
    InstructionCase({63, 64}) =>
        \E b \in {read_byte(binary_reader.buffer, read.from + 1)} :
            IF b.ok /\ b.val = 0
            THEN read.res.ok /\ binary_reader.position = b.pos
            ELSE ~read.res.ok /\ read.res.err = "InvalidMemorySizeByte"

(***************************************************************************)
(* Properties of a client that parses from a stream.                       *)
(***************************************************************************)

\* the last parse call was made in the Section state on a whole section
\* whose size is one byte of LEB128
WholeSectionParsed ==
    /\ prevLocation = "Section"
    /\ Len(buffer) >= 2
    /\ buffer[2] < 128
    /\ Len(buffer) >= 2 + buffer[2]

\* C37: a section whose id is not in 0..=11 is not a parse error: the parser
\* returns Chunk::Section(Unknown(id)) with consumed covering the whole
\* section and stays in the Section state, and Validator::validate on that
\* chunk returns UnknownSection(id) and leaves the context as it was.
C37_UnknownSection ==
    /\ (WholeSectionParsed /\ buffer[1] \notin 0..11) =>
          /\ result.ok
          /\ result.chunk.kind = "Section"
          /\ result.chunk.section.kind = "Unknown"
          /\ result.chunk.section.id = buffer[1]
          /\ result.consumed = 2 + buffer[2]
          /\ location = "Section"
    /\ (chunk.kind = "Section" /\ chunk.section.kind = "Unknown") =>
          /\ vresult = <<"UnknownSection", chunk.section.id>>
          /\ context = prevContext

C37_Witness ==
    /\ WholeSectionParsed
    /\ buffer[1] = 129
    /\ buffer[2] > 0
    /\ chunk = result.chunk
    /\ chunk.section.kind = "Unknown"
    /\ vresult[1] = "UnknownSection"

\* the location of a parser that returned these chunks and never failed
LocationAfter(chunks) ==
    IF chunks = <<>> THEN "ModuleHeader"
    ELSE IF Last(chunks) = "Done" THEN "End"
    ELSE "Section"

\* the chunks returned before the last call
EmittedBefore == IF result.ok THEN SubSeq(emitted, 1, Len(emitted) - 1) ELSE emitted

Access(width, ty) == [width |-> width, ty |-> ty]
LoadAccess ==
    [I32Load |-> Access(32, "I32"), I64Load |-> Access(64, "I64"),
     F32Load |-> Access(32, "F32"), F64Load |-> Access(64, "F64"),
     I32Load8s |-> Access(8, "I32"), I32Load8u |-> Access(8, "I32"),
     I32Load16s |-> Access(16, "I32"), I32Load16u |-> Access(16, "I32"),
     I64Load8s |-> Access(8, "I64"), I64Load8u |-> Access(8, "I64"),
     I64Load16s |-> Access(16, "I64"), I64Load16u |-> Access(16, "I64"),
     I64Load32s |-> Access(32, "I64"), I64Load32u |-> Access(32, "I64")]
StoreAccess ==
    [I32Store |-> Access(32, "I32"), I64Store |-> Access(64, "I64"),
     F32Store |-> Access(32, "F32"), F64Store |-> Access(64, "F64"),
     I32Store8 |-> Access(8, "I32"), I32Store16 |-> Access(16, "I32"),
     I64Store8 |-> Access(8, "I64"), I64Store16 |-> Access(16, "I64"),
     I64Store32 |-> Access(32, "I64")]
AccessOf(op) == IF op \in DOMAIN LoadAccess THEN LoadAccess[op] ELSE StoreAccess[op]

\* 2^alignment <= width / 8 bytes
AlignmentWithin(alignment, width) ==
    /\ alignment.hi = 0
    /\ alignment.lo <= 3
    /\ 2 ^ alignment.lo * 8 <= width

HasMemory == context.max_memory_index.some

\* what the operands of the last instruction make of the stack before it
MemoryOperands ==
    LET op == Last(body).op
    IN CASE op \in DOMAIN LoadAccess ->
                push_known(pop_known(PrevState, "I32"), LoadAccess[op].ty)
         [] op \in DOMAIN StoreAccess ->
                pop_known(pop_known(PrevState, StoreAccess[op].ty), "I32")
         [] op = "MemorySize" -> push_known(PrevState, "I32")
         [] op = "MemoryGrow" -> push_known(pop_known(PrevState, "I32"), "I32")

MemoryCase ==
    /\ body # <<>>
    /\ prev.status = Ok
    /\ Last(body).op \in DOMAIN LoadAccess \cup DOMAIN StoreAccess \cup {"MemorySize", "MemoryGrow"}

\* C35: a load or a store is accepted only if a memory is declared and its
\* alignment exponent is at most log2 of its access width in bytes; without
\* a memory the error is UndefinedMemory, with a memory and a larger
\* exponent it is InvalidMemoryAlignment, both whatever the operand stack
\* holds; memory.size and memory.grow require a memory too.
C35_MemoryInstructions ==
    MemoryCase =>
        IF ~HasMemory THEN status = <<"UndefinedMemory">>
        ELSE IF /\ Last(body).op \notin {"MemorySize", "MemoryGrow"}
                /\ ~AlignmentWithin(Last(body).memory_argument.alignment,
                                    AccessOf(Last(body).op).width)
             THEN status = <<"InvalidMemoryAlignment">>
        ELSE /\ status = MemoryOperands.err
             /\ status = Ok => operand_stack = MemoryOperands.operand_stack

\* an i64.load32_u of alignment 2 on an i32, and the stack holds an i64 after it
C35_Witness ==
    /\ MemoryCase
    /\ HasMemory
    /\ Last(body).op = "I64Load32u"
    /\ Last(body).memory_argument.alignment = U32(0, 2)
    /\ status = Ok
    /\ operand_stack = <<"I64">>

(***************************************************************************)
(* Properties of the frames of the function-body checker.                  *)
(***************************************************************************)

\* the frames open after the instructions of a body, outermost first: the
\* function's frame, then one for each block, loop or if that no end closed
RECURSIVE OpenFrames(_, _)
OpenFrames(instructions, n) ==
    IF n = 0 THEN <<[kind |-> "Block", block_type |-> TypeIndex(func_type_index)]>>
    ELSE LET open == OpenFrames(instructions, n - 1)
             i == instructions[n]
         IN IF open = <<>> THEN open
            ELSE IF i.op \in {"Block", "Loop", "If"}
            THEN Append(open, [kind |-> i.op, block_type |-> i.block_type])
            ELSE IF i.op = "Else"
            THEN [open EXCEPT ![Len(open)].kind = "Else"]
            ELSE IF i.op = "End" THEN SubSeq(open, 1, Len(open) - 1)
            ELSE open

\* the frames open when the last instruction was met
OpenBefore == OpenFrames(body, Len(body) - 1)

BranchCase ==
    /\ LastIs("Branch")
    /\ prev.status = Ok
    /\ OpenBefore # <<>>

\* C36: a branch label is resolved against the frames open at the branch:
\* label 0 is the innermost frame that no end closed yet, label d - 1 the
\* function's frame when d frames are open, and a label l >= d is rejected
\* with InvalidLabelIndex; the branch must supply the parameters of a Loop
\* frame and the results of any other.
C36_LabelsOfOpenFrames ==
    BranchCase =>
        IF Last(body).index >= Len(OpenBefore)
        THEN status = <<"InvalidLabelIndex", Last(body).index>>
        ELSE status = pop_knowns(PrevState,
                                 Reverse(LabelTypes(OpenBefore, Last(body).index))).err

\* what validate_jump resolves a label against: the control stack, on which
\* the frames that an end closed are still found
LabelsOfControlStack ==
    (LastIs("Branch") /\ prev.status = Ok) =>
        IF Last(body).index >= Len(prev.control_stack)
        THEN status = <<"InvalidLabelIndex", Last(body).index>>
        ELSE status = pop_knowns(PrevState,
                                 Reverse(LabelTypes(prev.control_stack, Last(body).index))).err

\* an end leaves the control stack as it was
EndKeepsFrame ==
    (LastIs("End") /\ prev.status = Ok) => status = Ok /\ control_stack = prev.control_stack

\* C39: after any sequence of validated instructions the control stack is
\* not empty, the operand stack is at least as high as the entry height of
\* the innermost frame, and the heights of the frames do not decrease from the
\* outermost to the innermost.
C39_StackAboveFrame ==
    (status = Ok) =>
        /\ control_stack # <<>>
        /\ Len(operand_stack) >= Last(control_stack).height
        /\ \A i \in 1..(Len(control_stack) - 1) :
              control_stack[i].height <= control_stack[i + 1].height

\* an operand was pushed before a block was entered, and an unreachable in
\* the block truncated the stack to the frame's height, not below it
C39_Witness ==
    /\ status = Ok
    /\ Len(body) = 3
    /\ body[1].op = "I32Const"
    /\ body[2].op = "Block"
    /\ body[3].op = "Unreachable"
    /\ operand_stack = <<"I32">>
    /\ Len(control_stack) = 2
    /\ Last(control_stack).height = 1

ElseCase == LastIs("Else") /\ prev.status = Ok /\ prev.control_stack # <<>>

\* the If branch's results are checked and an Else frame of the same block
\* type and height takes the place of the innermost frame
ElseReplacesFrame ==
    \E popped \in {pop_control_frame(PrevState)} :
        IF popped.err # Ok THEN status = popped.err
        ELSE /\ status = Ok
             /\ operand_stack = popped.operand_stack
             /\ control_stack =
                    Append(popped.control_stack,
                           ControlFrame("Else", Last(prev.control_stack).block_type,
                                        Last(prev.control_stack).height, FALSE))

\* C40: else is accepted only when the innermost open frame is an If frame
\* (it then checks the If branch's results and opens an Else frame of the
\* same block type and height); an else whose innermost frame is a Block, a
\* Loop, an Else or the function's frame is rejected.
C40_ElseOnlyInIf ==
    ElseCase =>
        IF Last(prev.control_stack).kind = "If" THEN ElseReplacesFrame ELSE status # Ok

\* what the Else arm does: the kind of the innermost frame is not looked at
ElseOnAnyFrame == ElseCase => ElseReplacesFrame

(***************************************************************************)
(* Properties of the iterated sub-readers.                                 *)
(***************************************************************************)

\* the items that n reads of a u32 from a position give: the decoded ones,
\* up to and with the first that fails
RECURSIVE Decoded(_, _, _)
Decoded(buf, position, n) ==
    IF n = 0 THEN <<>>
    ELSE LET item == read_leb128_u32(buf, position)
         IN IF ~item.ok THEN <<ItemErr(item.err)>>
            ELSE <<ItemOk(item.val)>> \o Decoded(buf, item.pos, n - 1)

\* the position after n u32 that decode
RECURSIVE PositionAfter(_, _, _)
PositionAfter(buf, position, n) ==
    IF n = 0 THEN position
    ELSE PositionAfter(buf, read_leb128_u32(buf, position).pos, n - 1)

AllOk(items) == \A i \in 1..Len(items) : items[i].kind = "Some(Ok)"

\* what was yielded so far is the beginning of: these items, then None forever
YieldedOf(items) ==
    \A i \in 1..Len(yielded) : yielded[i] = IF i <= Len(items) THEN items[i] ELSE ItemNone

\* a reader was made for a br_table whose count and n + 1 labels decode
BranchTableCount == read_leb128_u32(binary_reader.buffer, read.from)
BranchTableLabels ==
    Decoded(binary_reader.buffer, BranchTableCount.pos, AsUsize(BranchTableCount.val) + 1)
BranchTableRead ==
    /\ read.op = "create_branch_table_reader"
    /\ BranchTableCount.ok
    /\ Len(BranchTableLabels) = AsUsize(BranchTableCount.val) + 1
    /\ AllOk(BranchTableLabels)

\* C33: decoding br_table with label count n leaves the primary cursor at the
\* first byte after the n + 1 label indices; the branch-table reader yields
\* exactly the n + 1 labels, without error, in encoding order with the default
\* last; iterating a clone of it moves neither the instruction's own reader
\* nor the primary cursor.
C33_BranchTableReader ==
    BranchTableRead =>
        /\ read.res.ok
        /\ binary_reader.position =
               PositionAfter(binary_reader.buffer, BranchTableCount.pos,
                             AsUsize(BranchTableCount.val) + 1)
        /\ read.res.val.count = AsUsize(BranchTableCount.val)
        /\ read.res.val.buffer =
               SubSeq(binary_reader.buffer, read.from + 1, binary_reader.position)
        /\ read.res.val.position = BranchTableCount.pos - read.from
        /\ YieldedOf(BranchTableLabels)

\* the two labels of a br_table were yielded, then None
C33_Witness ==
    /\ BranchTableRead
    /\ AsUsize(BranchTableCount.val) = 1
    /\ Len(yielded) = 3
    /\ yielded[1] = ItemOk(U32(0, 2))
    /\ yielded[2] = ItemOk(U32(0, 0))
    /\ yielded[3] = ItemNone

\* a clone of a section reader is iterated
SectionIterated ==
    /\ read.op = "FunctionSectionReader::new"
    /\ read.res.ok
    /\ iterator # NoIterator

====
